---- MODULE Spec2Model ----
(***************************************************************************)
(* State machine of one Mahjong room of src/app.py: the room state         *)
(* (hands, deck, discard pile, last discard, melds, turn pointer, score    *)
(* table), the socket handlers that a human seat triggers (draw_tile,      *)
(* discard_tile, claim_meld, check_meld) and the bot worker threads        *)
(* (schedule_ai_move, handle_ai_turn, ai_discard_tile).                    *)
(*                                                                         *)
(* A tile is its id (0..41); Tile objects carry nothing but what the id    *)
(* determines (name, suit), and every comparison the handlers make is by   *)
(* id, suit or name.  A hand, the deck and the discard pile are Python     *)
(* lists and are sequences here.                                           *)
(***************************************************************************)
EXTENDS Integers, Sequences, FiniteSets, TLC

VARIABLES
    players_hands,   \* game_state["players_hands"]: seat -> list of tiles
    remaining_deck,  \* game_state["remaining_deck"]
    discard_pile,    \* game_state["discard_pile"]
    last_discard,    \* game_state.get("last_discard"): <<>> is None, <<t>> a tile
    players_melds,   \* game_state["players_melds"]: dict in insertion order,
                     \* a sequence of [position, melds]
    current_turn,    \* game_state["current_turn"]
    scores,          \* room_data["scores"], by the seat of each participant
    bots,            \* the seats of room_data["bots"]
    workers,         \* live handle_ai_turn threads: [position, pc, meld_claimed]
    inbox,           \* claim_meld events received and not yet handled
    game_over,       \* history: a 'game_over' event has been emitted
    settlements,     \* history: number of settle_scores calls that changed scores
    moves,           \* history: number of discards made
    holder,          \* history: <<seat>> that claimed and has not discarded since
    intake,          \* history: per seat, draws and claims since the last discard
    lastEvent        \* history: the last operation that changed the room state

roomVars == <<players_hands, remaining_deck, discard_pile, last_discard,
              players_melds, current_turn, scores>>
histVars == <<game_over, settlements, moves, holder, intake, lastEvent>>
vars == <<players_hands, remaining_deck, discard_pile, last_discard,
          players_melds, current_turn, scores, bots, workers, inbox,
          game_over, settlements, moves, holder, intake, lastEvent>>

(***************************************************************************)
(* Bounds of the model.                                                    *)
(***************************************************************************)
DeckLen == 1        \* tiles left in the deck in the initial room state
MaxWorkers == 1     \* live bot threads per room
MaxInbox == 2       \* claim requests in flight
MaxSettles == 1     \* settlements per run
MaxMoves == 2       \* discards per run
MaxIntake == 2      \* draws and claims of one seat between two discards

(***************************************************************************)
(* Tile catalog (src/game_logic/mahjong.py).                               *)
(***************************************************************************)
POSITIONS == <<"north", "east", "south", "west">>
Seats == {POSITIONS[i] : i \in 1..Len(POSITIONS)}

Suit(tile_id) ==
    IF 0 <= tile_id /\ tile_id <= 8 THEN "bamboo"
    ELSE IF 9 <= tile_id /\ tile_id <= 17 THEN "characters"
    ELSE IF 18 <= tile_id /\ tile_id <= 26 THEN "dots"
    ELSE IF 27 <= tile_id /\ tile_id <= 30 THEN "winds"
    ELSE IF 31 <= tile_id /\ tile_id <= 33 THEN "dragons"
    ELSE IF 34 <= tile_id /\ tile_id <= 41 THEN "bonus"
    ELSE "unknown"

\* int(tile.name.split()[1]) for a suited tile: TILE_NAMES gives "<suit> <n>"
TileNumber(tile_id) == (tile_id % 9) + 1

SUITED == {"bamboo", "characters", "dots"}

(***************************************************************************)
(* List helpers.                                                           *)
(***************************************************************************)
Count(hand, tile_id) == Cardinality({i \in DOMAIN hand : hand[i] = tile_id})

RemoveAt(s, i) == SubSeq(s, 1, i - 1) \o SubSeq(s, i + 1, Len(s))

Min(S) == CHOOSE x \in S : \A y \in S : x <= y

\* list.remove of the first tile with this id
RemoveId(hand, tile_id) ==
    IF Count(hand, tile_id) = 0 THEN hand
    ELSE RemoveAt(hand, Min({i \in DOMAIN hand : hand[i] = tile_id}))

RECURSIVE RemoveCopies(_, _, _)
RemoveCopies(hand, tile_id, k) ==
    IF k = 0 \/ Count(hand, tile_id) = 0 THEN hand
    ELSE RemoveCopies(RemoveId(hand, tile_id), tile_id, k - 1)

Copies(tile_id, k) == [i \in 1..k |-> tile_id]

(***************************************************************************)
(* Meld resolver (src/game_logic/mahjong.py).                              *)
(***************************************************************************)
\* a pong test that is content with one copy in the hand
can_claim_pong_any(hand, tile) == Count(hand, tile) >= 1

can_claim_pong(hand, tile) == Count(hand, tile) >= 2

can_claim_kong(hand, tile) == Count(hand, tile) >= 3

\* a chi test that returns the last matching sequence
can_claim_chi_last(hand, tile) ==
    IF Suit(tile) \notin SUITED
    THEN [flag |-> FALSE, sequence |-> <<>>]
    ELSE LET tile_number == TileNumber(tile)
             hand_numbers == {TileNumber(hand[i]) :
                                 i \in {j \in DOMAIN hand : Suit(hand[j]) = Suit(tile)}}
             sequences ==
                 (IF (tile_number - 2 \in hand_numbers) /\ (tile_number - 1 \in hand_numbers)
                  THEN << <<tile_number - 2, tile_number - 1, tile_number>> >> ELSE <<>>)
                 \o
                 (IF (tile_number - 1 \in hand_numbers) /\ (tile_number + 1 \in hand_numbers)
                  THEN << <<tile_number - 1, tile_number, tile_number + 1>> >> ELSE <<>>)
                 \o
                 (IF (tile_number + 1 \in hand_numbers) /\ (tile_number + 2 \in hand_numbers)
                  THEN << <<tile_number, tile_number + 1, tile_number + 2>> >> ELSE <<>>)
         IN  IF sequences # <<>>
             THEN [flag |-> TRUE, sequence |-> sequences[Len(sequences)]]
             ELSE [flag |-> FALSE, sequence |-> <<>>]

\* returns (flag, sequence); sequence <<>> is None
can_claim_chi(hand, tile) ==
    IF Suit(tile) \notin SUITED
    THEN [flag |-> FALSE, sequence |-> <<>>]
    ELSE LET tile_number == TileNumber(tile)
             hand_numbers == {TileNumber(hand[i]) :
                                 i \in {j \in DOMAIN hand : Suit(hand[j]) = Suit(tile)}}
             sequences ==
                 (IF (tile_number - 2 \in hand_numbers) /\ (tile_number - 1 \in hand_numbers)
                  THEN << <<tile_number - 2, tile_number - 1, tile_number>> >> ELSE <<>>)
                 \o
                 (IF (tile_number - 1 \in hand_numbers) /\ (tile_number + 1 \in hand_numbers)
                  THEN << <<tile_number - 1, tile_number, tile_number + 1>> >> ELSE <<>>)
                 \o
                 (IF (tile_number + 1 \in hand_numbers) /\ (tile_number + 2 \in hand_numbers)
                  THEN << <<tile_number, tile_number + 1, tile_number + 2>> >> ELSE <<>>)
         IN  IF sequences # <<>>
             THEN [flag |-> TRUE, sequence |-> sequences[1]]
             ELSE [flag |-> FALSE, sequence |-> <<>>]

(***************************************************************************)
(* Win check and scoring (src/app.py).                                     *)
(***************************************************************************)
get_next_turn(turn) ==
    LET idx == CHOOSE i \in 1..Len(POSITIONS) : POSITIONS[i] = turn
    IN  POSITIONS[(idx % Len(POSITIONS)) + 1]

\* players_melds.get(position, [])
MeldsOf(pm, position) ==
    IF \E i \in DOMAIN pm : pm[i].position = position
    THEN pm[CHOOSE i \in DOMAIN pm : pm[i].position = position].melds
    ELSE <<>>

\* a variant that starts the seat's meld list anew with every meld
AddMeldAnew(pm, position, meld_info) ==
    IF \E i \in DOMAIN pm : pm[i].position = position
    THEN [i \in DOMAIN pm |->
            IF pm[i].position = position
            THEN [pm[i] EXCEPT !.melds = <<meld_info>>]
            ELSE pm[i]]
    ELSE Append(pm, [position |-> position, melds |-> <<meld_info>>])

\* players_melds[position].append(meld_info), creating the key when absent
AddMeld(pm, position, meld_info) ==
    IF \E i \in DOMAIN pm : pm[i].position = position
    THEN [i \in DOMAIN pm |->
            IF pm[i].position = position
            THEN [pm[i] EXCEPT !.melds = Append(@, meld_info)]
            ELSE pm[i]]
    ELSE Append(pm, [position |-> position, melds |-> <<meld_info>>])

RECURSIVE SumSeq(_)
SumSeq(s) == IF s = <<>> THEN 0 ELSE s[1] + SumSeq(Tail(s))

\* the points compute_score adds for one meld (chi: none)
ComputeMeldPoints(meld) ==
    IF meld.meld_type = "pong"
    THEN (IF meld.tiles[1] \in {0, 8} THEN 4 ELSE 2)
    ELSE IF meld.meld_type = "kong"
    THEN (IF meld.tiles[1] \in {0, 8} THEN 8 ELSE 4)
    ELSE 0

compute_score(hand, melds, self_drawn) ==
    SumSeq([i \in DOMAIN melds |-> ComputeMeldPoints(melds[i])])
    + (IF self_drawn THEN 2 ELSE 2)

\* variant of the total: every meld counts 3
TotalTilesFlat(hand, melds) ==
    Len(hand) + SumSeq([i \in DOMAIN melds |-> 3])

\* total tile count of a seat as check_win_and_score adds it up
TotalTiles(hand, melds) ==
    Len(hand) + SumSeq([i \in DOMAIN melds |->
                           IF melds[i].meld_type = "kong" THEN 4 ELSE 3])

check_win_and_score(hands, pm, position) ==
    LET melds == MeldsOf(pm, position)
        hand == hands[position]
    IN  IF TotalTiles(hand, melds) = 14 /\ Len(hand) = 2 /\ hand[1] = hand[2]
        THEN [win |-> TRUE, score |-> compute_score(hand, melds, TRUE)]
        ELSE [win |-> FALSE, score |-> 0]

\* the points settle_scores adds for one meld
SettleMeldPoints(meld) ==
    IF meld.meld_type = "pong"
    THEN (IF meld.tiles[1] \in {0, 8} THEN 4 ELSE 2)
    ELSE IF meld.meld_type = "kong"
    THEN (IF meld.tiles[1] \in {0, 8} THEN 8 ELSE 4)
    ELSE IF meld.meld_type = "chi" THEN 1
    ELSE 0

PlayerScore(melds) == SumSeq([i \in DOMAIN melds |-> SettleMeldPoints(melds[i])])

\* max(player_scores, key=player_scores.get): the first key, in insertion
\* order, whose score is maximal; raises ValueError on an empty dict
SettleRaises(pm) == pm = <<>>

WinnerPosition(pm) ==
    pm[Min({i \in DOMAIN pm :
              \A j \in DOMAIN pm : PlayerScore(pm[j].melds) <= PlayerScore(pm[i].melds)})].position

\* variant of settle_scores: no doubling for east
settle_scores_flat(pm, sc) ==
    LET winner_position == WinnerPosition(pm)
        winner_score == PlayerScore(MeldsOf(pm, winner_position))
    IN  [p \in Seats |->
            IF p = winner_position
            THEN sc[p] + (Cardinality(Seats) - 1) * winner_score
            ELSE sc[p] - winner_score]

\* a variant in which a winner at east collects twice what the others pay
settle_scores_east_bonus(pm, sc) ==
    LET winner_position == WinnerPosition(pm)
        winner_score == PlayerScore(MeldsOf(pm, winner_position))
        pay == IF winner_position = "east" THEN 2 * winner_score ELSE winner_score
    IN  [p \in Seats |->
            IF p = winner_position
            THEN sc[p] + (Cardinality(Seats) - 1) * pay
            ELSE sc[p] - winner_score]

settle_scores(pm, sc) ==
    LET winner_position == WinnerPosition(pm)
        winner_score == PlayerScore(MeldsOf(pm, winner_position))
        pay == IF winner_position = "east" THEN 2 * winner_score ELSE winner_score
    IN  [p \in Seats |->
            IF p = winner_position
            THEN sc[p] + (Cardinality(Seats) - 1) * pay
            ELSE sc[p] - pay]

(***************************************************************************)
(* on_claim_meld (src/app.py): what the handler takes out of the hand.     *)
(***************************************************************************)
\* the pong / kong loop: the first k tiles with the discard's id
TakeCopies(hand, tile, k) ==
    [hand |-> RemoveCopies(hand, tile, k),
     meld_tiles |-> Copies(tile, IF Count(hand, tile) < k THEN Count(hand, tile) ELSE k)]

\* the chi loop: for each needed number the first hand tile of the
\* discard's suit with that number
RECURSIVE TakeNumbers(_, _, _)
TakeNumbers(hand, tile, needed_numbers) ==
    IF needed_numbers = <<>> THEN [hand |-> hand, meld_tiles |-> <<>>]
    ELSE LET t == tile - TileNumber(tile) + needed_numbers[1]
             rest == TakeNumbers(RemoveId(hand, t), tile, Tail(needed_numbers))
         IN  IF Count(hand, t) = 0
             THEN TakeNumbers(hand, tile, Tail(needed_numbers))
             ELSE [hand |-> rest.hand, meld_tiles |-> <<t>> \o rest.meld_tiles]

NeededNumbers(sequence, tile) ==
    SelectSeq(sequence, LAMBDA n : n # TileNumber(tile))

\* variant of the branches of lines 600-637: the removal loop runs before
\* the eligibility test
ClaimTakeEager(hand, tile, meld_type) ==
    IF meld_type = "pong"
    THEN [known |-> TRUE, valid |-> can_claim_pong(hand, tile)]
         @@ TakeCopies(hand, tile, 2)
    ELSE IF meld_type = "chi"
    THEN [known |-> TRUE, valid |-> can_claim_chi(hand, tile).flag]
         @@ TakeNumbers(hand, tile, <<TileNumber(tile) + 1, TileNumber(tile) + 2>>)
    ELSE IF meld_type = "kong"
    THEN [known |-> TRUE, valid |-> can_claim_kong(hand, tile)]
         @@ TakeCopies(hand, tile, 3)
    ELSE [known |-> FALSE, valid |-> FALSE, hand |-> hand, meld_tiles |-> <<>>]

\* lines 600-637: known (a meld type the handler knows), valid, and the
\* hand and meld tiles after the branch ran
ClaimTake(hand, tile, meld_type) ==
    IF meld_type = "pong"
    THEN IF can_claim_pong(hand, tile)
         THEN [known |-> TRUE, valid |-> TRUE] @@ TakeCopies(hand, tile, 2)
         ELSE [known |-> TRUE, valid |-> FALSE, hand |-> hand, meld_tiles |-> <<>>]
    ELSE IF meld_type = "chi"
    THEN IF can_claim_chi(hand, tile).flag
         THEN [known |-> TRUE, valid |-> TRUE]
              @@ TakeNumbers(hand, tile, NeededNumbers(can_claim_chi(hand, tile).sequence, tile))
         ELSE [known |-> TRUE, valid |-> FALSE, hand |-> hand, meld_tiles |-> <<>>]
    ELSE IF meld_type = "kong"
    THEN IF can_claim_kong(hand, tile)
         THEN [known |-> TRUE, valid |-> TRUE] @@ TakeCopies(hand, tile, 3)
         ELSE [known |-> TRUE, valid |-> FALSE, hand |-> hand, meld_tiles |-> <<>>]
    ELSE [known |-> FALSE, valid |-> FALSE, hand |-> hand, meld_tiles |-> <<>>]

\* variant of on_check_meld: the chi option is never offered
on_check_meld_no_chi(position) ==
    IF last_discard = <<>> THEN <<>>
    ELSE LET hand == players_hands[position]
             tile == last_discard[1]
         IN  (IF can_claim_pong(hand, tile) THEN <<"pong">> ELSE <<>>)
             \o (IF can_claim_kong(hand, tile) THEN <<"kong">> ELSE <<>>)

\* on_check_meld: the options list sent back to the seat
on_check_meld(position) ==
    IF last_discard = <<>> THEN <<>>
    ELSE LET hand == players_hands[position]
             tile == last_discard[1]
         IN  (IF can_claim_pong(hand, tile) THEN <<"pong">> ELSE <<>>)
             \o (IF can_claim_chi(hand, tile).flag THEN <<"chi">> ELSE <<>>)
             \o (IF can_claim_kong(hand, tile) THEN <<"kong">> ELSE <<>>)

(***************************************************************************)
(* The deck and the deal (src/game_logic/mahjong.py, and the copy of the   *)
(* module kept under src/MahjongGame-master), create_test_deck of          *)
(* src/app.py.  A deal answers raised when deck.pop(0) meets an empty      *)
(* list (IndexError).                                                      *)
(***************************************************************************)
create_deck ==
    [i \in 1..144 |-> IF i <= 136 THEN (i - 1) \div 4 ELSE (i - 137) + 34]

\* the seats in the order the deal serves them, 13 rounds and north's extra
DealOrder ==
    [i \in 1..52 |-> <<"east", "south", "west", "north">>[((i - 1) % 4) + 1]]
    \o <<"north">>

\* a deal that serves the top tile without taking it off the deck
RECURSIVE DealPopsKeep(_, _, _)
DealPopsKeep(hands, deck, order) ==
    IF order = <<>> THEN [raised |-> FALSE, hands |-> hands, deck |-> deck]
    ELSE IF deck = <<>> THEN [raised |-> TRUE, hands |-> hands, deck |-> deck]
    ELSE DealPopsKeep([hands EXCEPT ![order[1]] = Append(@, Head(deck))],
                      IF Len(order) % 2 = 0 THEN deck ELSE Tail(deck),
                      Tail(order))

RECURSIVE DealPops(_, _, _)
DealPops(hands, deck, order) ==
    IF order = <<>> THEN [raised |-> FALSE, hands |-> hands, deck |-> deck]
    ELSE IF deck = <<>> THEN [raised |-> TRUE, hands |-> hands, deck |-> deck]
    ELSE DealPops([hands EXCEPT ![order[1]] = Append(@, Head(deck))],
                  Tail(deck), Tail(order))

\* a deal whose extra tile goes to east
deal_tiles_east(deck) ==
    LET d == DealPops([p \in Seats |-> <<>>], deck, SubSeq(DealOrder, 1, 52) \o <<"east">>)
    IN  d

deal_tiles(deck) == DealPops([p \in Seats |-> <<>>], deck, DealOrder)

\* the copy under src/MahjongGame-master
master_create_deck == [i \in 1..27 |-> i - 1]

\* deck[a:b] of Python, a and b counted from 0
Slice(deck, a, b) ==
    SubSeq(deck, a + 1, IF b < Len(deck) THEN b ELSE Len(deck))

master_deal_tiles(deck) ==
    [raised |-> FALSE,
     hands |-> [p \in Seats |->
                  IF p = "east" THEN Slice(deck, 0, 14)
                  ELSE IF p = "south" THEN Slice(deck, 14, 27)
                  ELSE IF p = "west" THEN Slice(deck, 27, 40)
                  ELSE Slice(deck, 40, 53)],
     deck |-> Slice(deck, 53, Len(deck))]

\* app.py: the deck in id order less two tiles 5, dealt by slices, and the
\* first two tiles of east replaced by new tiles 5
create_test_deck ==
    LET full_deck == RemoveCopies(create_deck, 5, 2)
        east_hand == Slice(full_deck, 13, 26)
    IN  [raised |-> FALSE,
         hands |-> [p \in Seats |->
                      IF p = "north" THEN Slice(full_deck, 0, 13) \o <<full_deck[53]>>
                      ELSE IF p = "east" THEN [east_hand EXCEPT ![1] = 5, ![2] = 5]
                      ELSE IF p = "south" THEN Slice(full_deck, 26, 39)
                      ELSE Slice(full_deck, 39, 52)],
         deck |-> Slice(full_deck, 53, Len(full_deck))]

TEST_MODE == TRUE

(***************************************************************************)
(* Initial room states.  The first humans take the first seats (on_join),  *)
(* bots fill the rest.                                                     *)
(*                                                                         *)
(* Opening: on_start_game has dealt the test deck (TEST_MODE), no discard  *)
(* yet, no meld, 2000 points each, north to act; one human.                *)
(* Endgame: a room late in a game: every seat has claimed three melds,     *)
(* west has just discarded, north has drawn and is to discard; one or two  *)
(* humans.                                                                 *)
(* Of the remaining deck the model keeps the first DeckLen tiles.          *)
(***************************************************************************)
OpeningHands == create_test_deck.hands

OpeningDeck == create_test_deck.deck

Meld(meld_type, tiles, claimed_by) ==
    [meld_type |-> meld_type, tiles |-> tiles, claimed_by |-> claimed_by]

EndgameHands ==
    [p \in Seats |->
        IF p = "north" THEN <<1, 1, 1, 2, 2>>
        ELSE IF p = "east" THEN <<2, 2, 3>>
        ELSE IF p = "south" THEN <<4, 4, 6, 6>>
        ELSE <<7, 7, 5, 30>>]

EndgameMelds ==
    << [position |-> "east",
        melds |-> << Meld("pong", <<8, 8, 8>>, "east"),
                     Meld("chi", <<13, 12, 14>>, "east"),
                     Meld("kong", <<31, 31, 31, 31>>, "east") >>],
       [position |-> "south",
        melds |-> << Meld("chi", <<10, 9, 11>>, "south"),
                     Meld("chi", <<16, 15, 17>>, "south"),
                     Meld("pong", <<0, 0, 0>>, "south") >>],
       [position |-> "north",
        melds |-> << Meld("pong", <<27, 27, 27>>, "north"),
                     Meld("pong", <<28, 28, 28>>, "north"),
                     Meld("pong", <<29, 29, 29>>, "north") >>],
       [position |-> "west",
        melds |-> << Meld("pong", <<18, 18, 18>>, "west"),
                     Meld("pong", <<19, 19, 19>>, "west"),
                     Meld("pong", <<20, 20, 20>>, "west") >>] >>

EndgameDeck == <<6, 5, 4, 3, 5, 7>>

MeldTypes == {"pong", "chi", "kong", "hu"}   \* "hu": a type the handler does not know

NoEvent == [op |-> "start", seat |-> "north", actor |-> "none",
            turn |-> "north", holder |-> <<>>, mid |-> FALSE, over |-> FALSE,
            arg |-> "none", taken |-> 1]

\* the seats of the bots in a room of k humans (on_start_game lines 283-290)
BotSeats(k) == {POSITIONS[i] : i \in (k + 1)..Len(POSITIONS)}

Opening ==
    /\ bots = BotSeats(1)
    /\ players_hands = OpeningHands
    /\ remaining_deck = SubSeq(OpeningDeck, 1, DeckLen)
    /\ discard_pile = <<>>
    /\ last_discard = <<>>
    /\ players_melds = <<>>

Endgame ==
    /\ \E k \in {1, 2} : bots = BotSeats(k)
    /\ players_hands = EndgameHands
    /\ remaining_deck = SubSeq(EndgameDeck, 1, DeckLen)
    /\ discard_pile = <<33, 1>>
    /\ last_discard = <<1>>
    /\ players_melds = EndgameMelds

Init ==
    /\ Opening \/ Endgame
    /\ current_turn = "north"
    /\ scores = [p \in Seats |-> 2000]
    /\ workers = <<>>
    /\ inbox = <<>>
    /\ game_over = FALSE
    /\ settlements = 0
    /\ moves = 0
    /\ holder = <<>>
    /\ intake = [p \in Seats |-> IF p = "north" THEN 1 ELSE 0]
    /\ lastEvent = NoEvent

(***************************************************************************)
(* Bot threads.                                                            *)
(***************************************************************************)
\* schedule_ai_move: start a handle_ai_turn thread when the turn is a bot's
schedule_ai_move(ws, turn) ==
    IF turn \in bots
    THEN Append(ws, [position |-> turn, pc |-> "sleep", meld_claimed |-> FALSE])
    ELSE ws

\* a thread other than i is between two steps of its move
MidMove(i) == \E j \in DOMAIN workers : j # i /\ workers[j].pc # "sleep"

\* the record of one operation: who ran it and what held just before it
\* (turn pointer, claim holder, a thread in mid-move, game over); taken is
\* the acting seat's intake count
Event(op, seat, actor, i, arg, taken) ==
    [op |-> op, seat |-> seat, actor |-> actor,
     turn |-> current_turn, holder |-> holder, mid |-> MidMove(i),
     over |-> game_over, arg |-> arg, taken |-> taken]

(***************************************************************************)
(* on_claim_meld: the outcome of the handler for this seat and meld type,  *)
(* and the room state it leaves.                                           *)
(***************************************************************************)
ClaimEffect(position, meld_type) ==
    LET hand == players_hands[position]
        same == [result |-> "no_discard", hands |-> players_hands,
                 pile |-> discard_pile, pm |-> players_melds,
                 turn |-> current_turn, scores |-> scores, win |-> FALSE]
    IN  IF last_discard = <<>> THEN same
        ELSE
        LET tile == last_discard[1]
            take == ClaimTake(hand, tile, meld_type)
            hands1 == [players_hands EXCEPT ![position] = take.hand]
            meld_info == Meld(meld_type, <<tile>> \o take.meld_tiles, position)
            pm1 == AddMeld(players_melds, position, meld_info)
            won == check_win_and_score(hands1, pm1, position).win
        IN  IF ~take.known
            THEN [same EXCEPT !.result = "invalid_type", !.hands = hands1]
            ELSE IF ~take.valid
            THEN [same EXCEPT !.result = "not_eligible", !.hands = hands1]
            ELSE [result |-> "ok",
                  hands |-> hands1,
                  pile |-> IF discard_pile # <<>>
                           THEN SubSeq(discard_pile, 1, Len(discard_pile) - 1)
                           ELSE discard_pile,
                  pm |-> pm1,
                  turn |-> position,
                  scores |-> IF won THEN settle_scores(pm1, scores) ELSE scores,
                  win |-> won]

\* the room and history variables after on_claim_meld; the deck and the
\* last-discard slot are not written by the handler
ApplyClaim(position, meld_type, actor, i) ==
    LET eff == ClaimEffect(position, meld_type)
    IN  /\ eff.win => settlements < MaxSettles
        /\ eff.result = "ok" => intake[position] < MaxIntake
        /\ players_hands' = eff.hands
        /\ discard_pile' = eff.pile
        /\ players_melds' = eff.pm
        /\ current_turn' = eff.turn
        /\ scores' = eff.scores
        /\ game_over' = (game_over \/ eff.win)
        /\ settlements' = IF eff.win THEN settlements + 1 ELSE settlements
        /\ holder' = IF eff.result = "ok" THEN <<position>> ELSE holder
        /\ intake' = IF eff.result = "ok"
                     THEN [intake EXCEPT ![position] = @ + 1] ELSE intake
        /\ lastEvent' = IF eff.result = "ok"
                        THEN Event("claim", position, actor, i, meld_type,
                                   intake[position] + 1)
                        ELSE lastEvent
        /\ UNCHANGED <<remaining_deck, last_discard, moves>>

(***************************************************************************)
(* Handlers of the events a human seat sends.  A handler that answers      *)
(* emit('error', ...) and returns leaves every variable as it was.         *)
(***************************************************************************)
\* on_draw_tile: outcome, and the hands, deck and scores it leaves
DrawEffect(seat) ==
    LET same == [result |-> "not_your_turn", hands |-> players_hands,
                 deck |-> remaining_deck, scores |-> scores]
    IN  IF seat # current_turn THEN same
        ELSE IF remaining_deck = <<>>
        THEN \* settle_scores(room, user); then rd["room"] raises KeyError
             \* before the game_over emit
             IF SettleRaises(players_melds)
             THEN [same EXCEPT !.result = "error"]
             ELSE [same EXCEPT !.result = "deck_empty",
                               !.scores = settle_scores(players_melds, scores)]
        ELSE [result |-> "ok",
              hands |-> [players_hands EXCEPT ![seat] = Append(@, Head(remaining_deck))],
              deck |-> Tail(remaining_deck),
              scores |-> scores]

on_draw_tile(seat) ==
    LET eff == DrawEffect(seat)
    IN  /\ seat \notin bots
        /\ eff.result = "deck_empty" => settlements < MaxSettles
        /\ eff.result = "ok" => intake[seat] < MaxIntake
        /\ players_hands' = eff.hands
        /\ remaining_deck' = eff.deck
        /\ scores' = eff.scores
        /\ settlements' = IF eff.result = "deck_empty" THEN settlements + 1
                          ELSE settlements
        /\ intake' = IF eff.result = "ok" THEN [intake EXCEPT ![seat] = @ + 1]
                     ELSE intake
        /\ lastEvent' = IF eff.result = "ok"
                        THEN Event("draw", seat, "human", 0, "none", intake[seat] + 1)
                        ELSE IF eff.result = "deck_empty"
                        THEN Event("settle", seat, "human", 0, "none", intake[seat])
                        ELSE lastEvent
        /\ UNCHANGED <<discard_pile, last_discard, players_melds, current_turn,
                       bots, workers, inbox, game_over, moves, holder>>

\* a discard that takes every copy of the tile out of the hand
DiscardHandsAll(seat, tile) ==
    [players_hands EXCEPT ![seat] = RemoveCopies(@, tile, Count(@, tile))]

\* the hands after a seat discards a tile (hand.remove(tile))
DiscardHands(seat, tile) == [players_hands EXCEPT ![seat] = RemoveId(@, tile)]

\* on_discard_tile: outcome, and the room state it leaves
DiscardEffect(seat, tile_id) ==
    LET same == [result |-> "not_your_turn", hands |-> players_hands,
                 pile |-> discard_pile, last |-> last_discard,
                 turn |-> current_turn, scores |-> scores, win |-> FALSE]
        hands1 == DiscardHands(seat, tile_id)
        won == check_win_and_score(hands1, players_melds, seat).win
    IN  IF seat # current_turn THEN same
        ELSE IF Count(players_hands[seat], tile_id) = 0
        THEN [same EXCEPT !.result = "tile_not_found"]
        ELSE [result |-> "ok",
              hands |-> hands1,
              pile |-> Append(discard_pile, tile_id),
              last |-> <<tile_id>>,
              turn |-> get_next_turn(seat),
              scores |-> IF won THEN settle_scores(players_melds, scores) ELSE scores,
              win |-> won]

on_discard_tile(seat, tile_id) ==
    LET eff == DiscardEffect(seat, tile_id)
        ok == eff.result = "ok"
        \* on a win the handler returns before schedule_ai_move
        ws1 == IF ok /\ ~eff.win THEN schedule_ai_move(workers, eff.turn)
               ELSE workers
    IN  /\ seat \notin bots
        /\ ok => moves < MaxMoves
        /\ eff.win => settlements < MaxSettles
        /\ Len(ws1) <= MaxWorkers
        /\ players_hands' = eff.hands
        /\ discard_pile' = eff.pile
        /\ last_discard' = eff.last
        /\ current_turn' = eff.turn
        /\ scores' = eff.scores
        /\ workers' = ws1
        /\ game_over' = (game_over \/ eff.win)
        /\ settlements' = IF eff.win THEN settlements + 1 ELSE settlements
        /\ moves' = IF ok THEN moves + 1 ELSE moves
        /\ holder' = IF ok /\ holder = <<seat>> THEN <<>> ELSE holder
        /\ intake' = IF ok THEN [p \in Seats |-> 0] ELSE intake
        /\ lastEvent' = IF ok
                        THEN Event("discard", seat, "human", 0, "none", intake[seat])
                        ELSE lastEvent
        /\ UNCHANGED <<remaining_deck, players_melds, bots, inbox>>

\* claim_meld handled as soon as it is sent
on_claim_meld(seat, meld_type) ==
    /\ seat \notin bots
    /\ inbox = <<>>
    /\ ApplyClaim(seat, meld_type, "human", 0)
    /\ UNCHANGED <<bots, workers, inbox>>

\* a claim_meld event is sent while others are still waiting to be handled
\* (bounds: MaxInbox events in flight, one per seat)
RequestClaim(seat, meld_type) ==
    /\ seat \notin bots
    /\ Len(inbox) < MaxInbox
    /\ \A i \in DOMAIN inbox : inbox[i].seat # seat
    /\ inbox' = Append(inbox, [seat |-> seat, meld_type |-> meld_type])
    /\ UNCHANGED <<roomVars, bots, workers, histVars>>

\* the server handles the claim_meld events in the order they arrived
HandleClaim ==
    /\ inbox # <<>>
    /\ ApplyClaim(Head(inbox).seat, Head(inbox).meld_type, "human", 0)
    /\ inbox' = Tail(inbox)
    /\ UNCHANGED <<bots, workers>>

(***************************************************************************)
(* ai_discard_tile: the tile the heuristic picks.                          *)
(***************************************************************************)
Abs(x) == IF x < 0 THEN 0 - x ELSE x

TileScore(hand, t) ==
    LET copies == Count(hand, t) - 1
        chow == IF 0 <= t /\ t <= 26
                THEN Cardinality({n \in {t - 2, t - 1, t + 1, t + 2} : Count(hand, n) > 0})
                ELSE 0
        near == 0 <= t /\ t <= 26
                /\ \E i \in DOMAIN hand : Abs(hand[i] - t) \in {1, 2}
    IN  copies + chow - (IF copies = 0 /\ ~near THEN 1 ELSE 0)

\* min score, then the highest id among the tiles with that score
TileToDiscard(hand) ==
    LET ids == {hand[i] : i \in DOMAIN hand}
        min_score == Min({TileScore(hand, t) : t \in ids})
        candidates == {t \in ids : TileScore(hand, t) = min_score}
    IN  CHOOSE t \in candidates : \A u \in candidates : u <= t

(***************************************************************************)
(* handle_ai_turn, one thread per scheduled bot move.  The thread sleeps,  *)
(* then runs in three steps: the claim check and claim (lines 88-117),     *)
(* the deck check and draw (lines 119-128), and ai_discard_tile (line 130);*)
(* other handlers and threads may run between the steps.                   *)
(***************************************************************************)
\* the meld type the bot asks for, "none" when it claims nothing
AiMeldChoice(hand) ==
    IF last_discard = <<>> THEN "none"
    ELSE IF can_claim_pong(hand, last_discard[1]) THEN "pong"
    ELSE IF can_claim_chi(hand, last_discard[1]).flag THEN "chi"
    ELSE IF can_claim_kong(hand, last_discard[1]) THEN "kong"
    ELSE "none"

AiClaim(i) ==
    /\ i \in DOMAIN workers
    /\ workers[i].pc = "sleep"
    /\ UNCHANGED <<bots, inbox>>
    /\ LET position == workers[i].position
           choice == AiMeldChoice(players_hands[position])
       IN  IF choice = "none"
           THEN /\ workers' = [workers EXCEPT ![i].pc = "deck"]
                /\ UNCHANGED <<roomVars, histVars>>
           ELSE /\ ApplyClaim(position, choice, "bot", i)
                /\ workers' = [workers EXCEPT ![i].pc = "deck",
                                              ![i].meld_claimed = TRUE]

AiDraw(i) ==
    /\ i \in DOMAIN workers
    /\ workers[i].pc = "deck"
    /\ UNCHANGED <<bots, inbox>>
    /\ LET position == workers[i].position
       IN  IF remaining_deck = <<>>
           THEN \* settle_scores(room_id, None, 0), game_over, return; the
                \* thread ends on settle_scores' ValueError when no meld exists
                /\ ~SettleRaises(players_melds) => settlements < MaxSettles
                /\ scores' = IF SettleRaises(players_melds) THEN scores
                             ELSE settle_scores(players_melds, scores)
                /\ settlements' = IF SettleRaises(players_melds) THEN settlements
                                  ELSE settlements + 1
                /\ game_over' = (game_over \/ ~SettleRaises(players_melds))
                /\ workers' = RemoveAt(workers, i)
                /\ lastEvent' = IF SettleRaises(players_melds) THEN lastEvent
                                ELSE Event("settle", position, "bot", i, "none",
                                           intake[position])
                /\ UNCHANGED <<players_hands, remaining_deck, discard_pile,
                               last_discard, players_melds, current_turn, moves,
                               holder, intake>>
           ELSE IF ~workers[i].meld_claimed
           THEN /\ intake[position] < MaxIntake
                /\ remaining_deck' = Tail(remaining_deck)
                /\ players_hands' = [players_hands EXCEPT
                                        ![position] = Append(@, Head(remaining_deck))]
                /\ intake' = [intake EXCEPT ![position] = @ + 1]
                /\ workers' = [workers EXCEPT ![i].pc = "discard"]
                /\ lastEvent' = Event("draw", position, "bot", i, "none",
                                      intake[position] + 1)
                /\ UNCHANGED <<discard_pile, last_discard, players_melds,
                               current_turn, scores, game_over, settlements, moves,
                               holder>>
           ELSE /\ workers' = [workers EXCEPT ![i].pc = "discard"]
                /\ UNCHANGED <<roomVars, histVars>>

ai_discard_tile(i) ==
    /\ i \in DOMAIN workers
    /\ workers[i].pc = "discard"
    /\ UNCHANGED <<bots, inbox>>
    /\ LET position == workers[i].position
           hand == players_hands[position]
       IN  IF hand = <<>>
           THEN \* min() of an empty sequence raises: the thread ends
                /\ workers' = RemoveAt(workers, i)
                /\ UNCHANGED <<roomVars, histVars>>
           ELSE LET tile == TileToDiscard(hand)
                    hands1 == DiscardHands(position, tile)
                    won == check_win_and_score(hands1, players_melds, position).win
                IN  /\ won => settlements < MaxSettles
                    /\ moves < MaxMoves
                    /\ moves' = moves + 1
                    /\ players_hands' = hands1
                    /\ discard_pile' = Append(discard_pile, tile)
                    /\ last_discard' = <<tile>>
                    /\ current_turn' = get_next_turn(position)
                    /\ scores' = IF won THEN settle_scores(players_melds, scores)
                                 ELSE scores
                    /\ game_over' = (game_over \/ won)
                    /\ settlements' = IF won THEN settlements + 1 ELSE settlements
                    \* the next thread is started whether or not the bot won
                    /\ workers' = schedule_ai_move(RemoveAt(workers, i),
                                                   get_next_turn(position))
                    /\ holder' = IF holder = <<position>> THEN <<>> ELSE holder
                    /\ intake' = [p \in Seats |-> 0]
                    /\ lastEvent' = Event("discard", position, "bot", i, "none",
                                          intake[position])
                    /\ UNCHANGED <<remaining_deck, players_melds>>

(***************************************************************************)
(* Specifications.  Spec: every claim_meld event is handled as it is sent. *)
(* SpecInbox: claim_meld events wait in arrival order until handled.       *)
(***************************************************************************)
TileInputs(seat) == {players_hands[seat][i] : i \in DOMAIN players_hands[seat]} \cup {41}

Next ==
    \/ \E seat \in Seats : on_draw_tile(seat)
    \/ \E seat \in Seats : \E tile_id \in TileInputs(seat) : on_discard_tile(seat, tile_id)
    \/ \E seat \in Seats : \E meld_type \in MeldTypes : on_claim_meld(seat, meld_type)
    \/ \E i \in 1..MaxWorkers : AiClaim(i)
    \/ \E i \in 1..MaxWorkers : AiDraw(i)
    \/ \E i \in 1..MaxWorkers : ai_discard_tile(i)

Spec == Init /\ [][Next]_vars

NextInbox ==
    \/ \E seat \in Seats : on_draw_tile(seat)
    \/ \E seat \in Seats : \E tile_id \in TileInputs(seat) : on_discard_tile(seat, tile_id)
    \/ \E seat \in Seats : \E meld_type \in MeldTypes : RequestClaim(seat, meld_type)
    \/ HandleClaim
    \/ \E i \in 1..MaxWorkers : AiClaim(i)
    \/ \E i \in 1..MaxWorkers : AiDraw(i)
    \/ \E i \in 1..MaxWorkers : ai_discard_tile(i)

SpecInbox == Init /\ [][NextInbox]_vars

(***************************************************************************)
(* SpecScore: the win check and the settlement applied to score inputs.    *)
(* The inputs are a hand for north and a meld table for north and east, in *)
(* either insertion order; the actions are the tail of the handlers        *)
(* (win check, and settlement on a win) and the settlement of an empty     *)
(* deck, each applied once to the inputs.                                  *)
(***************************************************************************)
MaxMeldList == 3    \* melds of north in the score inputs

\* a meld as on_claim_meld records it: the claimed tile first
MeldInput(meld_type, tile, position) ==
    Meld(meld_type,
         IF meld_type = "pong" THEN Copies(tile, 3)
         ELSE IF meld_type = "kong" THEN Copies(tile, 4)
         ELSE <<tile + 2, tile, tile + 1>>,
         position)

\* tile 0 is bamboo 1, tile 9 is characters 1
NorthMelds ==
    {MeldInput(meld_type, tile, "north") :
        meld_type \in {"pong", "chi", "kong"}, tile \in {0, 9}}

NorthMeldLists == UNION {[1..k -> NorthMelds] : k \in 1..MaxMeldList}

EastMeldLists ==
    { <<MeldInput("kong", 8, "east")>>,
      <<MeldInput("kong", 8, "east"), MeldInput("kong", 26, "east")>>,
      <<MeldInput("kong", 8, "east"), MeldInput("kong", 26, "east"),
        MeldInput("pong", 17, "east")>> }

HandInputs == {<<1>>, <<1, 1>>, <<1, 2>>, <<1, 1, 1>>}

MeldTables ==
    {<<>>}
    \cup {<<[position |-> "north", melds |-> n]>> : n \in NorthMeldLists}
    \cup {<<[position |-> "north", melds |-> n], [position |-> "east", melds |-> e]>> :
             n \in NorthMeldLists, e \in EastMeldLists}
    \cup {<<[position |-> "east", melds |-> e], [position |-> "north", melds |-> n]>> :
             n \in NorthMeldLists, e \in EastMeldLists}

ScoreInit ==
    /\ \E hand \in HandInputs :
          players_hands = [p \in Seats |-> IF p = "north" THEN hand ELSE <<>>]
    /\ players_melds \in MeldTables
    /\ remaining_deck = <<>>
    /\ discard_pile = <<>>
    /\ last_discard = <<>>
    /\ current_turn = "north"
    /\ scores = [p \in Seats |-> 2000]
    /\ bots = BotSeats(1)
    /\ workers = <<>>
    /\ inbox = <<>>
    /\ game_over = FALSE
    /\ settlements = 0
    /\ moves = 0
    /\ holder = <<>>
    /\ intake = [p \in Seats |-> 0]
    /\ lastEvent = [NoEvent EXCEPT !.op = "inputs"]

\* lines 679-682 (and 200-207, 430-442): the win check of a seat, and the
\* settlement when it reports a win; arg and taken record what it returned
WinCheck(position) ==
    LET r == check_win_and_score(players_hands, players_melds, position)
    IN  /\ lastEvent.op = "inputs"
        /\ r.win => settlements < MaxSettles
        /\ scores' = IF r.win THEN settle_scores(players_melds, scores) ELSE scores
        /\ game_over' = (game_over \/ r.win)
        /\ settlements' = IF r.win THEN settlements + 1 ELSE settlements
        /\ lastEvent' = [NoEvent EXCEPT !.op = "win_check", !.seat = position,
                                        !.arg = IF r.win THEN "win" ELSE "no_win",
                                        !.taken = r.score]
        /\ UNCHANGED <<players_hands, remaining_deck, discard_pile, last_discard,
                       players_melds, current_turn, bots, workers, inbox, moves,
                       holder, intake>>

\* lines 119-122: settle_scores(room_id, None, 0) on an empty deck
Settle ==
    /\ lastEvent.op = "inputs"
    /\ ~SettleRaises(players_melds)
    /\ settlements < MaxSettles
    /\ scores' = settle_scores(players_melds, scores)
    /\ game_over' = TRUE
    /\ settlements' = settlements + 1
    /\ lastEvent' = [NoEvent EXCEPT !.op = "settle"]
    /\ UNCHANGED <<players_hands, remaining_deck, discard_pile, last_discard,
                   players_melds, current_turn, bots, workers, inbox, moves,
                   holder, intake>>

NextScore ==
    \/ \E position \in Seats : WinCheck(position)
    \/ Settle

SpecScore == ScoreInit /\ [][NextScore]_vars

(***************************************************************************)
(* Properties of the turn and the claim window.                            *)
(***************************************************************************)

\* C1: every draw and every discard that changes the room state is made by
\* the seat the current-turn pointer names at that moment, for a human
\* request and for a bot thread alike.
C1_MoveByTurnSeat ==
    lastEvent.op \in {"draw", "discard"} => lastEvent.seat = lastEvent.turn

\* C2: a draw is accepted only when the seat has taken in nothing since the
\* last discard of the game, and a discard only after exactly one draw or
\* one claim by the discarding seat.
C2_DrawThenDiscard ==
    /\ lastEvent.op = "draw" => lastEvent.taken = 1
    /\ lastEvent.op = "discard" => lastEvent.taken = 1

\* C3: after a successful claim the claimant is the next seat to move: until
\* the claimant has discarded, no other seat draws or discards, and the turn
\* pointer stays on the claimant.
C3_ClaimantMovesNext ==
    /\ (lastEvent.holder # <<>> /\ lastEvent.op \in {"draw", "discard"})
          => lastEvent.seat = lastEvent.holder[1]
    /\ holder # <<>> => current_turn = holder[1]

\* C4: after a successful claim the last-discard slot is empty, so that
\* until the next discard every claim request, by any seat and of any meld
\* type, is rejected for want of a pending discard.
C4_ClaimClosesWindow ==
    lastEvent.op = "claim" =>
        /\ last_discard = <<>>
        /\ \A seat \in Seats : \A meld_type \in MeldTypes :
              ClaimEffect(seat, meld_type).result = "no_discard"

\* C5: the operations on a room are serialized: no human draw, discard or
\* claim, and no step of a bot thread, changes the room while another bot
\* thread is between the steps of its move.
C5_Serialized == ~lastEvent.mid

(***************************************************************************)
(* Properties of the requests: rejection, claim options, claim effect.     *)
(***************************************************************************)

\* C6: a rejected request leaves the deck, the hands, the discard pile, the
\* last discard, the melds, the turn pointer and the scores as they were:
\* a draw or a discard out of turn, a discard of a tile id that is not in
\* the hand, a claim with no pending discard, a claim the hand does not
\* support, a claim of an unknown meld type.
C6_RejectedUnchanged ==
    /\ \A seat \in Seats :
          LET eff == DrawEffect(seat)
          IN  eff.result = "not_your_turn" =>
                 /\ eff.hands = players_hands
                 /\ eff.deck = remaining_deck
                 /\ eff.scores = scores
    /\ \A seat \in Seats : \A tile_id \in TileInputs(seat) :
          LET eff == DiscardEffect(seat, tile_id)
          IN  eff.result \in {"not_your_turn", "tile_not_found"} =>
                 /\ eff.hands = players_hands
                 /\ eff.pile = discard_pile
                 /\ eff.last = last_discard
                 /\ eff.turn = current_turn
                 /\ eff.scores = scores
                 /\ ~eff.win
    /\ \A seat \in Seats : \A meld_type \in MeldTypes :
          LET eff == ClaimEffect(seat, meld_type)
          IN  eff.result \in {"no_discard", "invalid_type", "not_eligible"} =>
                 /\ eff.hands = players_hands
                 /\ eff.pile = discard_pile
                 /\ eff.pm = players_melds
                 /\ eff.turn = current_turn
                 /\ eff.scores = scores
                 /\ ~eff.win

\* a discard has been made, it is a human seat's turn, and requests of four
\* kinds are rejected: out of turn, tile not held, unknown type, not eligible
C6_RejectionsArise ==
    /\ lastEvent.op = "discard"
    /\ \E seat \in Seats \ bots :
          /\ DrawEffect(seat).result = "not_your_turn"
          /\ \E tile_id \in TileInputs(seat) :
                DiscardEffect(seat, tile_id).result = "not_your_turn"
    /\ \E seat \in Seats \ bots :
          DiscardEffect(seat, 41).result = "tile_not_found"
    /\ \E seat \in Seats \ bots :
          /\ ClaimEffect(seat, "hu").result = "invalid_type"
          /\ \E meld_type \in MeldTypes :
                /\ ClaimEffect(seat, meld_type).result = "not_eligible"
                /\ Count(players_hands[seat], last_discard[1]) > 0

\* C7: for every seat and every meld type among pong, chi and kong, a claim
\* request succeeds exactly when the type is in the options on_check_meld
\* answers in the same state; with no last discard the options are empty.
C7_ClaimIffOption ==
    /\ \A seat \in Seats : \A meld_type \in {"pong", "chi", "kong"} :
          (ClaimEffect(seat, meld_type).result = "ok")
             <=> (\E i \in DOMAIN on_check_meld(seat) :
                     on_check_meld(seat)[i] = meld_type)
    /\ last_discard = <<>> => \A seat \in Seats : on_check_meld(seat) = <<>>

\* a discard has been made, and in the state it left one seat is offered
\* pong, another chi, and a third seat is offered nothing
C7_OptionsOffered ==
    /\ lastEvent.op = "discard"
    /\ \E seat \in Seats : \E i \in DOMAIN on_check_meld(seat) :
          on_check_meld(seat)[i] = "pong"
    /\ \E seat \in Seats : \E i \in DOMAIN on_check_meld(seat) :
          on_check_meld(seat)[i] = "chi"
    /\ \E seat \in Seats : on_check_meld(seat) = <<>>

\* C8: a successful claim takes 2 tiles (pong, chi) or 3 tiles (kong) out of
\* the claiming seat's hand, leaves the other hands as they were, and takes
\* off the discard pile exactly the pending discard.
C8_ClaimTakesPendingDiscard ==
    [][players_melds' # players_melds =>
          LET seat == lastEvent'.seat
              k == IF lastEvent'.arg = "kong" THEN 3 ELSE 2
          IN  /\ Len(players_hands'[seat]) = Len(players_hands[seat]) - k
              /\ \A p \in Seats \ {seat} : players_hands'[p] = players_hands[p]
              /\ discard_pile # <<>>
              /\ discard_pile[Len(discard_pile)] = last_discard[1]
              /\ discard_pile' = SubSeq(discard_pile, 1, Len(discard_pile) - 1)
      ]_vars

\* C9: of the claims by several seats that wait together on one discard,
\* the one applied has the highest priority, kong over pong over chi: no
\* claim is applied while an eligible claim of higher priority by another
\* seat waits behind it.
C9_HighestPriorityFirst ==
    [][(inbox # <<>> /\ inbox' = Tail(inbox) /\ players_melds' # players_melds) =>
          LET priority == [t \in MeldTypes |->
                              IF t = "kong" THEN 3 ELSE IF t = "pong" THEN 2
                              ELSE IF t = "chi" THEN 1 ELSE 0]
          IN  \A i \in 2..Len(inbox) :
                 ~ /\ inbox[i].seat # Head(inbox).seat
                   /\ ClaimEffect(inbox[i].seat, inbox[i].meld_type).result = "ok"
                   /\ priority[inbox[i].meld_type] > priority[Head(inbox).meld_type]
      ]_vars

\* C10: once the game is over, no draw, discard or claim changes the room
\* state, no bot move changes it, and the scores are not settled again.
C10_TerminalAbsorbing ==
    [][game_over => UNCHANGED <<roomVars, settlements>>]_vars

(***************************************************************************)
(* Properties of the end of the game and of the scores.                    *)
(***************************************************************************)

\* C11: a draw attempt by the seat in turn, human or bot, on an empty deck
\* ends the game (game over is announced) and changes no seat's balance.
C11_EmptyDeckDrawIsDraw ==
    [][(lastEvent'.op = "settle" /\ settlements' # settlements) =>
          /\ scores' = scores
          /\ game_over'
      ]_vars

\* C12: the win check of a seat reports a win exactly when the hand is two
\* tiles of one id and hand size + 3 per pong or chi meld + 4 per kong meld
\* is 14; otherwise it reports no win and score 0.
C12_WinIffPairAndFourteen ==
    /\ \A position \in Seats :
          LET hand == players_hands[position]
              melds == MeldsOf(players_melds, position)
              kongs == Cardinality({i \in DOMAIN melds : melds[i].meld_type = "kong"})
              others == Cardinality({i \in DOMAIN melds :
                                        melds[i].meld_type \in {"pong", "chi"}})
              r == check_win_and_score(players_hands, players_melds, position)
          IN  /\ r.win <=> /\ Len(hand) = 2
                           /\ hand[1] = hand[2]
                           /\ Len(hand) + 3 * others + 4 * kongs = 14
              /\ ~r.win => r.score = 0
              /\ (lastEvent.op = "win_check" /\ lastEvent.seat = position) =>
                    /\ (lastEvent.arg = "win") <=> r.win
                    /\ lastEvent.taken = r.score

\* the win check has run on a winning hand (a pair and three kongs), and on
\* the same table east, whose hand is empty, does not win
C12_WinReported ==
    /\ lastEvent.op = "win_check"
    /\ lastEvent.arg = "win"
    /\ game_over
    /\ ~check_win_and_score(players_hands, players_melds, "east").win

\* C13: a settlement declares as winner a seat whose meld score is the
\* highest of the four seats, whichever seat's win check triggered it, and
\* moves winner_score points from each of the three other seats to the
\* winner, twice winner_score when the winner sits at east.
C13_HighestMeldScoreWins ==
    [][settlements' # settlements =>
          LET points == [p \in Seats |-> PlayerScore(MeldsOf(players_melds, p))]
          IN  \E w \in Seats :
                 LET pay == IF w = "east" THEN 2 * points[w] ELSE points[w]
                 IN  /\ \A p \in Seats : points[p] <= points[w]
                     /\ scores'[w] = scores[w] + 3 * pay
                     /\ \A p \in Seats \ {w} : scores'[p] = scores[p] - pay
      ]_vars

\* north's win check reported a win and the settlement paid east, whose
\* meld score is the highest, twice that score from each other seat
C13_EastPaidOnNorthWin ==
    /\ lastEvent.op = "win_check"
    /\ lastEvent.seat = "north"
    /\ lastEvent.arg = "win"
    /\ scores["east"] = 2000 + 6 * PlayerScore(MeldsOf(players_melds, "east"))
    /\ scores["north"] = 2000 - 2 * PlayerScore(MeldsOf(players_melds, "east"))

\* C14: a pong meld scores 4 when its tile is rank 1 or rank 9 of bamboo,
\* characters or dots and 2 otherwise, and a kong meld scores the double,
\* in the win score and in the settlement alike.
C14_TerminalMeldPoints ==
    lastEvent.op \in {"win_check", "settle"} =>
        \A i \in DOMAIN players_melds : \A j \in DOMAIN players_melds[i].melds :
            LET meld == players_melds[i].melds[j]
                tile == meld.tiles[1]
                pong_value == IF Suit(tile) \in SUITED /\ TileNumber(tile) \in {1, 9}
                              THEN 4 ELSE 2
            IN  /\ meld.meld_type = "pong" =>
                      /\ SettleMeldPoints(meld) = pong_value
                      /\ ComputeMeldPoints(meld) = pong_value
                /\ meld.meld_type = "kong" =>
                      /\ SettleMeldPoints(meld) = 2 * pong_value
                      /\ ComputeMeldPoints(meld) = 2 * pong_value

\* C15: a chi meld counts 1 in every score computation: the win score
\* (compute_score) of a meld list is the settlement score of the list plus
\* the bonus of 2, self-drawn or not.
C15_WinScoreIsSettleScorePlusBonus ==
    lastEvent.op \in {"win_check", "settle"} =>
        \A i \in DOMAIN players_melds :
            LET melds == players_melds[i].melds
                hand == players_hands[players_melds[i].position]
            IN  /\ compute_score(hand, melds, TRUE) = PlayerScore(melds) + 2
                /\ compute_score(hand, melds, FALSE) = PlayerScore(melds) + 2

(***************************************************************************)
(* C16.  The effect of a successful discard by the seat the turn pointer   *)
(* names, by on_discard_tile or by a bot's ai_discard_tile.                *)
(***************************************************************************)
\* a step in which the seat named by the turn pointer discards
DiscardByTurnSeat ==
    /\ moves' = moves + 1
    /\ lastEvent'.op = "discard"
    /\ lastEvent'.seat = current_turn

\* what a discard does to the hand, the pile, the slot, the turn pointer,
\* the deck, the other hands and the melds
DiscardMoves(seat) ==
    /\ last_discard' # <<>>
    /\ LET tile == last_discard'[1]
       IN  /\ Count(players_hands[seat], tile) >= 1
           /\ Len(players_hands'[seat]) = Len(players_hands[seat]) - 1
           /\ \A id \in 0..41 :
                 Count(players_hands'[seat], id) =
                    Count(players_hands[seat], id) - (IF id = tile THEN 1 ELSE 0)
           /\ discard_pile' = Append(discard_pile, tile)
    /\ current_turn' = (CASE seat = "north" -> "east"
                          [] seat = "east" -> "south"
                          [] seat = "south" -> "west"
                          [] seat = "west" -> "north")
    /\ remaining_deck' = remaining_deck
    /\ \A p \in Seats \ {seat} : players_hands'[p] = players_hands[p]
    /\ players_melds' = players_melds

MaxRotate == 2

\* lengths of the decks handed to the deal besides the created ones
DeckLengths == {0, 1, 13, 52, 53, 54}

Rotate(deck, k) ==
    IF k >= Len(deck) THEN deck
    ELSE SubSeq(deck, k + 1, Len(deck)) \o SubSeq(deck, 1, k)

Reverse(deck) == [i \in 1..Len(deck) |-> deck[Len(deck) + 1 - i]]

\* the tiles at the odd places, then the tiles at the even places
Riffle(deck) ==
    LET n == Len(deck)
        odd == (n + 1) \div 2
    IN  [i \in 1..n |-> IF i <= odd THEN deck[2 * i - 1] ELSE deck[2 * (i - odd)]]

\* random.shuffle(deck): some of the orders it can leave
shuffle_outcomes(deck) ==
    LET cuts == {Rotate(deck, k) : k \in 0..MaxRotate}
    IN  cuts \cup {Reverse(d) : d \in cuts} \cup {Riffle(d) : d \in cuts}

SetupInit ==
    /\ players_hands = <<>>
    /\ remaining_deck = <<>>
    /\ discard_pile = <<>>
    /\ last_discard = <<>>
    /\ players_melds = <<>>
    /\ current_turn = "none"
    /\ scores = <<>>
    /\ bots = {}
    /\ workers = <<>>
    /\ inbox = <<>>
    /\ game_over = FALSE
    /\ settlements = 0
    /\ moves = 0
    /\ holder = <<>>
    /\ intake = [p \in Seats |-> 0]
    /\ lastEvent = [NoEvent EXCEPT !.op = "room", !.turn = "none"]

setupFrame == <<discard_pile, last_discard, players_melds, current_turn, scores,
                bots, workers, inbox, game_over, settlements, moves, holder, intake>>

\* a create_deck function is called: version is "live" for
\* src/game_logic/mahjong.py and "master" for the copy
CreateDeck(version) ==
    /\ lastEvent.op = "room"
    /\ remaining_deck' = IF version = "live" THEN create_deck ELSE master_create_deck
    /\ lastEvent' = [lastEvent EXCEPT !.op = "created", !.arg = version]
    /\ UNCHANGED <<players_hands, setupFrame>>

\* a deck of n tiles is handed over by a caller
PassDeck(n) ==
    /\ lastEvent.op = "room"
    /\ remaining_deck' = SubSeq(create_deck, 1, n)
    /\ lastEvent' = [lastEvent EXCEPT !.op = "created", !.arg = "input"]
    /\ UNCHANGED <<players_hands, setupFrame>>

shuffle_deck ==
    /\ lastEvent.op = "created"
    /\ remaining_deck' \in shuffle_outcomes(remaining_deck)
    /\ lastEvent' = [lastEvent EXCEPT !.op = "shuffled"]
    /\ UNCHANGED <<players_hands, setupFrame>>

\* a deal function is applied to the deck; a raised deal returns nothing
Deal(version) ==
    /\ lastEvent.op \in {"created", "shuffled"}
    /\ LET r == IF version = "live" THEN deal_tiles(remaining_deck)
                ELSE master_deal_tiles(remaining_deck)
       IN  /\ players_hands' = IF r.raised THEN players_hands ELSE r.hands
           /\ remaining_deck' = r.deck
           /\ lastEvent' = [lastEvent EXCEPT
                               !.op = IF r.raised THEN "deal_raised" ELSE "deal",
                               !.arg = version]
    /\ UNCHANGED setupFrame

\* on_start_game in a room of k humans, with TEST_MODE set either way
on_start_game(k, test_mode) ==
    /\ lastEvent.op = "room"
    /\ \E deck \in shuffle_outcomes(create_deck) :
          LET r == IF test_mode THEN create_test_deck ELSE deal_tiles(deck)
          IN  IF r.raised
              THEN /\ lastEvent' = [lastEvent EXCEPT !.op = "start_raised"]
                   /\ bots' = BotSeats(k)
                   /\ UNCHANGED <<players_hands, remaining_deck, discard_pile,
                                  players_melds, current_turn, scores>>
              ELSE /\ players_hands' = r.hands
                   /\ remaining_deck' = r.deck
                   /\ discard_pile' = <<>>
                   /\ current_turn' = "north"
                   /\ players_melds' = <<>>
                   /\ scores' = [p \in Seats |-> 2000]
                   /\ bots' = BotSeats(k)
                   /\ lastEvent' = [lastEvent EXCEPT
                                       !.op = "start_game",
                                       !.arg = IF test_mode THEN "test" ELSE "deal"]
    /\ UNCHANGED <<last_discard, workers, inbox, game_over, settlements, moves,
                   holder, intake>>

NextSetup ==
    \/ \E version \in {"live", "master"} : CreateDeck(version)
    \/ \E n \in DeckLengths : PassDeck(n)
    \/ shuffle_deck
    \/ \E version \in {"live", "master"} : Deal(version)
    \/ \E k \in 1..4 : \E test_mode \in BOOLEAN : on_start_game(k, test_mode)

SpecSetup == SetupInit /\ [][NextSetup]_vars

(***************************************************************************)
(* C17 - C20.  The deck, the deal and the state on_start_game installs.    *)
(***************************************************************************)
\* C17: every freshly created deck has exactly 144 tiles, each id 0 to 33
\* four times and each id 34 to 41 once, in ascending id order.
C17_FreshDeckHas144 ==
    (lastEvent.op = "created" /\ lastEvent.arg \in {"live", "master"}) =>
        /\ Len(remaining_deck) = 144
        /\ \A id \in 0..33 : Count(remaining_deck, id) = 4
        /\ \A id \in 34..41 : Count(remaining_deck, id) = 1
        /\ \A i \in 1..(Len(remaining_deck) - 1) :
              remaining_deck[i] <= remaining_deck[i + 1]

\* a step that applies one of the deal functions
DealStep ==
    /\ lastEvent.op \in {"created", "shuffled"}
    /\ lastEvent'.op \in {"deal", "deal_raised"}

\* the deal of version v applied to the places 1..n of a deck, which tells
\* the tile instances apart
DealOfPlaces(v, n) ==
    IF v = "live" THEN deal_tiles([i \in 1..n |-> i])
    ELSE master_deal_tiles([i \in 1..n |-> i])

\* C18: dealing from a 144-tile deck yields four hands that together hold
\* exactly the first 53 deck tiles, no tile instance in two hands, exactly
\* one hand of 14 tiles and three of 13, and a remaining deck of 91 tiles
\* that are the undealt tiles in their original order.
C18_DealSplitsFirst53 ==
    [][(DealStep /\ Len(remaining_deck) = 144) =>
          LET places == DealOfPlaces(lastEvent'.arg, 144)
              held(p) == {places.hands[p][j] : j \in DOMAIN places.hands[p]}
          IN  /\ lastEvent'.op = "deal"
              /\ ~places.raised
              /\ \A p \in Seats : Cardinality(held(p)) = Len(places.hands[p])
              /\ \A p, q \in Seats : p # q => held(p) \cap held(q) = {}
              /\ UNION {held(p) : p \in Seats} = 1..53
              /\ \A p \in Seats :
                    players_hands'[p] =
                       [j \in DOMAIN places.hands[p] |-> remaining_deck[places.hands[p][j]]]
              /\ Cardinality({p \in Seats : Len(players_hands'[p]) = 14}) = 1
              /\ Cardinality({p \in Seats : Len(players_hands'[p]) = 13}) = 3
              /\ \A id \in 0..41 :
                    SumSeq([i \in 1..4 |-> Count(players_hands'[POSITIONS[i]], id)])
                       = Count(SubSeq(remaining_deck, 1, 53), id)
              /\ Len(remaining_deck') = 91
              /\ remaining_deck' = SubSeq(remaining_deck, 54, 144)
      ]_vars

\* a shuffled 144-tile deck has been dealt by the slicing deal
C18_ShuffledDeckDealt ==
    /\ lastEvent.op = "deal"
    /\ lastEvent.arg = "master"
    /\ Len(remaining_deck) = 91
    /\ Len(players_hands["east"]) = 14
    /\ players_hands["east"][1] # 0
    /\ Len(players_hands["north"]) = 13

\* C19: dealing from a deck of fewer than 53 tiles fails with an error: it
\* never returns hands, short or empty, and no game state is installed.
C19_ShortDeckDealRaises ==
    [][(DealStep /\ Len(remaining_deck) < 53) =>
          /\ lastEvent'.op = "deal_raised"
          /\ players_hands' = players_hands
          /\ UNCHANGED <<discard_pile, players_melds, current_turn, scores>>
      ]_vars

Move(type, tile) == [type |-> type, tile |-> tile]

DiscardMovesOf(hand) == [i \in 1..Len(hand) |-> Move("discard", hand[i])]

get_legal_moves(hand, discard) ==
    DiscardMovesOf(hand)
    \o (IF discard = <<>> THEN <<>>
        ELSE (IF can_claim_pong(hand, discard[1])
              THEN <<Move("pong", discard[1])>> ELSE <<>>)
             \o (IF can_claim_chi(hand, discard[1]).flag
                 THEN <<Move("chi", discard[1])>> ELSE <<>>)
             \o (IF can_claim_kong(hand, discard[1])
                 THEN <<Move("kong", discard[1])>> ELSE <<>>))

get_available_actions(hand, discard) ==
    DiscardMovesOf(hand)
    \o (IF discard = <<>> THEN <<>>
        ELSE (IF can_claim_pong(hand, discard[1])
              THEN <<Move("pong", discard[1])>> ELSE <<>>)
             \o <<Move("chi", discard[1])>>
             \o (IF can_claim_kong(hand, discard[1])
                 THEN <<Move("kong", discard[1])>> ELSE <<>>))

(***************************************************************************)
(* SpecMeld: the meld tests applied to a hand (held by north) and a        *)
(* candidate tile (the last discard), and the move lists built from them.  *)
(***************************************************************************)
MaxHand == 3

\* bamboo 1-4 and 9, characters 1 and 2, a wind, a bonus tile
MeldTiles == {0, 1, 2, 3, 8, 9, 10, 27, 34}

MeldHands == UNION {[1..n -> MeldTiles] : n \in 0..MaxHand}

MeldInit ==
    /\ \E hand \in MeldHands :
          players_hands = [p \in Seats |-> IF p = "north" THEN hand ELSE <<>>]
    /\ \E tile \in MeldTiles : last_discard = <<tile>>
    /\ remaining_deck = <<>>
    /\ discard_pile = <<>>
    /\ players_melds = <<>>
    /\ current_turn = "north"
    /\ scores = [p \in Seats |-> 2000]
    /\ bots = {}
    /\ workers = <<>>
    /\ inbox = <<>>
    /\ game_over = FALSE
    /\ settlements = 0
    /\ moves = 0
    /\ holder = <<>>
    /\ intake = [p \in Seats |-> 0]
    /\ lastEvent = [NoEvent EXCEPT !.op = "inputs"]

\* the answer of a test, as the history records it
Answer(flag) == IF flag THEN "yes" ELSE "no"

meldFrame == <<players_hands, remaining_deck, discard_pile, last_discard,
               players_melds, current_turn, scores, bots, workers, inbox,
               game_over, settlements, moves, holder, intake>>

CanClaimPong ==
    /\ lastEvent.op = "inputs"
    /\ lastEvent' = [lastEvent EXCEPT
                        !.op = "can_claim_pong",
                        !.arg = Answer(can_claim_pong(players_hands["north"],
                                                      last_discard[1]))]
    /\ UNCHANGED meldFrame

CanClaimKong ==
    /\ lastEvent.op = "inputs"
    /\ lastEvent' = [lastEvent EXCEPT
                        !.op = "can_claim_kong",
                        !.arg = Answer(can_claim_kong(players_hands["north"],
                                                      last_discard[1]))]
    /\ UNCHANGED meldFrame

\* taken holds the sequence returned
CanClaimChi ==
    /\ lastEvent.op = "inputs"
    /\ LET r == can_claim_chi(players_hands["north"], last_discard[1])
       IN  lastEvent' = [lastEvent EXCEPT !.op = "can_claim_chi",
                                          !.arg = Answer(r.flag),
                                          !.taken = r.sequence]
    /\ UNCHANGED meldFrame

\* a search engine lists the moves of the state; taken holds the list
ListMoves(version) ==
    /\ lastEvent.op = "inputs"
    /\ LET ms == IF version = "live"
                 THEN get_legal_moves(players_hands["north"], last_discard)
                 ELSE get_available_actions(players_hands["north"], last_discard)
       IN  lastEvent' = [lastEvent EXCEPT
                            !.op = "list_moves",
                            !.actor = version,
                            !.arg = Answer(\E i \in DOMAIN ms : ms[i].type = "chi"),
                            !.taken = ms]
    /\ UNCHANGED meldFrame

(***************************************************************************)
(* MCTS._fallback_heuristic of src/MahjongGame-master/game_logic/mcts.py:  *)
(* the score counts the copies of the tile (itself included) and the       *)
(* neighbouring ids held; min() over the dict returns the first tile of    *)
(* the hand with the lowest score.  An empty hand raises ValueError, and   *)
(* the handler's state["current_hand"][0] raises again.                    *)
(***************************************************************************)
FallbackScore(hand, t) ==
    Count(hand, t)
    + (IF 0 <= t /\ t <= 26
       THEN Cardinality({n \in {t - 2, t - 1, t + 1, t + 2} : Count(hand, n) > 0})
       ELSE 0)

fallback_heuristic(hand) ==
    IF hand = <<>> THEN [raised |-> TRUE, action |-> Move("none", 0)]
    ELSE LET low == Min({FallbackScore(hand, hand[i]) : i \in DOMAIN hand})
             first == Min({i \in DOMAIN hand : FallbackScore(hand, hand[i]) = low})
         IN  [raised |-> FALSE, action |-> Move("discard", hand[first])]

\* the tile choice of ai_discard_tile (src/app.py), which raises on an
\* empty hand (min() of an empty sequence)
ai_discard_choice(hand) ==
    IF hand = <<>> THEN [raised |-> TRUE, action |-> Move("none", 0)]
    ELSE [raised |-> FALSE, action |-> Move("discard", TileToDiscard(hand))]

\* a heuristic picks the discard of north's hand; taken holds the tile
Heuristic(version) ==
    /\ lastEvent.op = "inputs"
    /\ LET r == IF version = "app" THEN ai_discard_choice(players_hands["north"])
                ELSE fallback_heuristic(players_hands["north"])
       IN  lastEvent' = [lastEvent EXCEPT
                            !.op = "heuristic",
                            !.actor = version,
                            !.arg = IF r.raised THEN "raised" ELSE r.action.type,
                            !.taken = r.action.tile]
    /\ UNCHANGED meldFrame

NextMeld ==
    \/ CanClaimPong
    \/ CanClaimKong
    \/ CanClaimChi
    \/ \E version \in {"live", "master"} : ListMoves(version)
    \/ \E version \in {"app", "master"} : Heuristic(version)

SpecMeld == MeldInit /\ [][NextMeld]_vars

(***************************************************************************)
(* C21 - C23.  The meld tests.                                             *)
(***************************************************************************)
\* the number of tiles of the hand with this id
Holding(hand, tile) == Cardinality({i \in DOMAIN hand : hand[i] = tile})

\* C21: can_claim_pong is true if and only if the hand holds at least 2
\* tiles with the candidate's id, can_claim_kong if and only if it holds at
\* least 3; neither call changes the hand.
C21_PongKongByCount ==
    [][/\ lastEvent'.op = "can_claim_pong" =>
             /\ (lastEvent'.arg = "yes") <=>
                   (Holding(players_hands["north"], last_discard[1]) >= 2)
             /\ players_hands' = players_hands
       /\ lastEvent'.op = "can_claim_kong" =>
             /\ (lastEvent'.arg = "yes") <=>
                   (Holding(players_hands["north"], last_discard[1]) >= 3)
             /\ players_hands' = players_hands
      ]_vars

\* the kong test has refused a hand of exactly two copies, which the pong
\* test accepts
C21_TwoCopiesNoKong ==
    /\ lastEvent.op = "can_claim_kong"
    /\ lastEvent.arg = "no"
    /\ Holding(players_hands["north"], last_discard[1]) = 2
    /\ can_claim_pong(players_hands["north"], last_discard[1])

\* the ranks of the hand's tiles in the suit of a suited candidate
SameSuitRanks(hand, tile) ==
    {(hand[i] % 9) + 1 : i \in {j \in DOMAIN hand : hand[j] \div 9 = tile \div 9}}

\* a chi is open: the candidate is suited and one of the three windows
\* around its rank is in the hand, in the candidate's suit
ChiOpen(hand, tile) ==
    /\ tile \in 0..26
    /\ LET R == (tile % 9) + 1
           ranks == SameSuitRanks(hand, tile)
       IN  \/ {R - 2, R - 1} \subseteq ranks
           \/ {R - 1, R + 1} \subseteq ranks
           \/ {R + 1, R + 2} \subseteq ranks

\* C22: can_claim_chi reports eligibility if and only if the candidate is a
\* suited tile of rank R and the same-suit tiles of the hand hold both ranks
\* of one of the windows (R-2, R-1), (R-1, R+1), (R+1, R+2); never for a
\* wind, dragon or bonus candidate; the engines' move lists offer a chi on
\* the same condition.
C22_ChiIffWindow ==
    lastEvent.op \in {"can_claim_chi", "list_moves"} =>
        ((lastEvent.arg = "yes") <=> ChiOpen(players_hands["north"], last_discard[1]))

\* C23: when can_claim_chi reports eligibility it returns one sequence of
\* three consecutive ranks within 1..9 that include the candidate's rank R:
\* the first matching window in the order below, straddle, above.
C23_FirstWindowReturned ==
    (lastEvent.op = "can_claim_chi" /\ lastEvent.arg = "yes") =>
        LET R == (last_discard[1] % 9) + 1
            ranks == SameSuitRanks(players_hands["north"], last_discard[1])
            seq == lastEvent.taken
        IN  /\ Len(seq) = 3
            /\ seq[2] = seq[1] + 1
            /\ seq[3] = seq[2] + 1
            /\ 1 <= seq[1]
            /\ seq[3] <= 9
            /\ R \in {seq[1], seq[2], seq[3]}
            /\ seq = IF {R - 2, R - 1} \subseteq ranks THEN <<R - 2, R - 1, R>>
                     ELSE IF {R - 1, R + 1} \subseteq ranks THEN <<R - 1, R, R + 1>>
                     ELSE <<R, R + 1, R + 2>>

\* the hand matched the window below and the straddling window, and the
\* sequence below was returned
C23_TwoWindowsMatched ==
    /\ lastEvent.op = "can_claim_chi"
    /\ lastEvent.arg = "yes"
    /\ LET R == (last_discard[1] % 9) + 1
           ranks == SameSuitRanks(players_hands["north"], last_discard[1])
       IN  /\ {R - 2, R - 1, R + 1} \subseteq ranks
           /\ lastEvent.taken = <<R - 2, R - 1, R>>

(***************************************************************************)
(* C29.  The fallback heuristic.                                           *)
(***************************************************************************)
\* the score the heuristic of this version gives a tile of the hand
HeuristicScore(version, hand, t) ==
    IF version = "app" THEN TileScore(hand, t) ELSE FallbackScore(hand, t)

\* C29: for every non-empty hand the fallback heuristic returns, without
\* raising, a discard of a tile of the hand whose heuristic score is minimal
\* over the hand, and among the tiles of minimal score one with the highest
\* id.
C29_LowestScoreHighestId ==
    (lastEvent.op = "heuristic" /\ players_hands["north"] # <<>>) =>
        LET hand == players_hands["north"]
            v == lastEvent.actor
            t == lastEvent.taken
        IN  /\ lastEvent.arg = "discard"
            /\ \E i \in DOMAIN hand : hand[i] = t
            /\ \A i \in DOMAIN hand :
                  HeuristicScore(v, hand, t) <= HeuristicScore(v, hand, hand[i])
            /\ \A i \in DOMAIN hand :
                  HeuristicScore(v, hand, hand[i]) = HeuristicScore(v, hand, t)
                     => hand[i] <= t

(***************************************************************************)
(* C28.  A bot whose turn it is has a worker.                              *)
(***************************************************************************)
\* C28: a bot never stalls the game: whenever the game is not over and the
\* turn pointer names a bot seat, a bot worker for that seat is pending or
\* running (so that, scheduled fairly, the bot discards or the game ends).
C28_BotInTurnHasWorker ==
    (~game_over /\ current_turn \in bots) =>
        \E i \in DOMAIN workers : workers[i].position = current_turn

(***************************************************************************)
(* The search engines.                                                     *)
(*                                                                         *)
(* live: MCTS of src/game_logic/mcts.py driven by MahjongMCTS of           *)
(* src/game_logic/mahjong_mcts.py.  A search state is                      *)
(* [hand, last_discard, melds]; _apply_move and _simulate work on deep     *)
(* copies, so every node owns its state.                                   *)
(*                                                                         *)
(* master: MCTS of src/MahjongGame-master/game_logic/mcts.py.  _apply_action*)
(* and _simulate_random_playout take state.copy(), a shallow copy: the     *)
(* hand list, the discard pile list and the melds dict of every node state *)
(* are the caller's own objects.  The shared state is                      *)
(* [hand, discard_pile, melds], melds by meld type.                        *)
(*                                                                         *)
(* A node is [parent, action, visits, value, untried, state]; parent 0 is  *)
(* None and the children of a node are the nodes naming it, in creation    *)
(* order.  Rewards and node values are floats in the code; they are        *)
(* counted here in tenths (live) and hundredths (master), which every      *)
(* reward is a whole number of.  The child ucb1 prefers is taken to be any *)
(* child.                                                                  *)
(***************************************************************************)
max_depth == 10

NoMove == Move("none", 0)

\* the j-th smallest element of a set of numbers
Nth(S, j) == CHOOSE x \in S : Cardinality({y \in S : y < x}) = j - 1

\* the k smallest elements of S, all of S when it has fewer
FirstK(S, k) == {x \in S : Cardinality({y \in S : y < x}) < k}

\* the tiles of the hand at the places of a set, in hand order
TilesAt(hand, places) ==
    [j \in 1..Cardinality(places) |-> hand[Nth(places, j)]]

\* MahjongMCTS._get_meld_tiles: the places of the hand a meld takes
meld_places(hand, move) ==
    IF move.type = "pong"
    THEN FirstK({i \in DOMAIN hand : hand[i] = move.tile}, 2)
    ELSE IF move.type = "kong"
    THEN FirstK({i \in DOMAIN hand : hand[i] = move.tile}, 3)
    ELSE IF move.type = "chi"
    THEN FirstK({i \in DOMAIN hand : Suit(hand[i]) = Suit(move.tile)}, 2)
    ELSE {}

\* MahjongMCTS._apply_move: the new state; the move's tile is a copy of the
\* last discard and is no element of the hand
apply_move(state, move) ==
    IF move.type = "discard"
    THEN IF Count(state.hand, move.tile) = 0 THEN state
         ELSE [state EXCEPT !.hand = RemoveId(@, move.tile),
                            !.last_discard = <<move.tile>>]
    ELSE LET places == meld_places(state.hand, move)
         IN  [state EXCEPT
                 !.hand = TilesAt(@, DOMAIN state.hand \ places),
                 !.melds = Append(@, [type |-> move.type,
                                      tiles |-> TilesAt(state.hand, places)
                                                \o <<move.tile>>])]

\* MCTS._apply_action of the master copy, on the shared objects
apply_action(shared, action) ==
    IF action.type = "discard"
    THEN [shared EXCEPT !.hand = RemoveId(@, action.tile),
                        !.discard_pile = Append(@, action.tile)]
    ELSE [shared EXCEPT !.hand = RemoveId(@, action.tile),
                        !.melds = [@ EXCEPT ![action.type] = Append(@, action.tile)]]

Node(parent, action, untried, state) ==
    [parent |-> parent, action |-> action, visits |-> 0, value |-> 0,
     untried |-> untried, state |-> state]

Children(tree, n) == {c \in DOMAIN tree : tree[c].parent = n}

\* _select: the nodes the descent from n can end at
RECURSIVE SelectTargets(_, _)
SelectTargets(tree, n) ==
    IF tree[n].untried = <<>> /\ Children(tree, n) # {}
    THEN UNION {SelectTargets(tree, c) : c \in Children(tree, n)}
    ELSE {n}

\* the nodes from n up to the root
RECURSIVE PathToRoot(_, _)
PathToRoot(tree, n) ==
    IF n = 0 THEN {} ELSE {n} \cup PathToRoot(tree, tree[n].parent)

\* the number of ancestors of n
RECURSIVE Level(_, _)
Level(tree, n) ==
    IF tree[n].parent = 0 THEN 0 ELSE 1 + Level(tree, tree[n].parent)

\* the reward a node m on the way up from n receives: the live engine adds
\* the reward as it is at every node, the master engine negates it at every
\* step up
reward_at(tree, n, m, reward, version) ==
    IF version = "master" /\ (Level(tree, n) - Level(tree, m)) % 2 = 1
    THEN 0 - reward ELSE reward

\* a backpropagation that stops below the root
backpropagate_below_root(tree, n, reward, version) ==
    [m \in DOMAIN tree |->
        IF m \in PathToRoot(tree, n) /\ tree[m].parent # 0
        THEN [tree[m] EXCEPT !.visits = @ + 1,
                             !.value = @ + reward_at(tree, n, m, reward, version)]
        ELSE tree[m]]

\* _backpropagate, and the loop at the end of an iteration of the master
\* engine: one more visit and the reward for the node and each of its
\* ancestors
backpropagate(tree, n, reward, version) ==
    [m \in DOMAIN tree |->
        IF m \in PathToRoot(tree, n)
        THEN [tree[m] EXCEPT !.visits = @ + 1,
                             !.value = @ + reward_at(tree, n, m, reward, version)]
        ELSE tree[m]]

\* max(lo, min(hi, x))
Clamp(lo, hi, x) == IF x < lo THEN lo ELSE IF x > hi THEN hi ELSE x

\* the reward at the end of _simulate, in tenths:
\* max(-1, min(1, num_melds * 0.3 - hand_size * 0.1))
simulate_reward(state) ==
    Clamp(0 - 10, 10, 3 * Len(state.melds) - Len(state.hand))

\* the score _evaluate_state computes for a hand, in hundredths:
\* max(-1, min(1, score / 10)) with 0.2 per copy and 0.1 per neighbouring id
evaluate_score(hand) ==
    Clamp(0 - 100, 100, SumSeq([i \in DOMAIN hand |->
                       FallbackScore(hand, hand[i]) + Count(hand, hand[i])]))

\* the action of the last node created
newest_action(tree) == tree[Len(tree)].action

\* max(root.children, key=lambda c: c.visits).action: the first of the
\* most visited children of the root
best_child_action(tree) ==
    LET kids == Children(tree, 1)
        top == CHOOSE c \in kids :
                  /\ \A d \in kids : tree[d].visits <= tree[c].visits
                  /\ \A d \in kids : tree[d].visits = tree[c].visits => c <= d
    IN  tree[top].action

(***************************************************************************)
(* SpecSearch: one get_best_action call.  The caller's state is the room   *)
(* state of north: its hand, the last discard, the discard pile and the    *)
(* melds (for the master engine the dict state["melds"], by meld type).    *)
(* workers holds the call in progress: the caller's thread with the locals *)
(* of get_best_action (tree, iteration count, the node selected, the       *)
(* playout state and depth), the root's move list as first computed        *)
(* (legal0), the hand as passed (hand0) and the result.  lastEvent.actor   *)
(* names the engine.  The random choices (rollout_policy, random.choice)   *)
(* and the time budget of the live engine are free choices.                *)
(***************************************************************************)
MaxBudget == 4        \* num_simulations / max_iterations
MaxSearchHand == 3    \* tiles in the hand passed to the search
MaxIdleMoves == 2     \* playout moves of the master engine that keep the hand

ClaimTypes == {"pong", "chi", "kong"}

SearchTiles == {1, 2}

SearchInit ==
    /\ \E hand \in UNION {[1..n -> SearchTiles] : n \in 0..MaxSearchHand} :
          players_hands = [p \in Seats |-> IF p = "north" THEN hand ELSE <<>>]
    /\ last_discard \in {<<>>, <<0>>, <<1>>}
    /\ \E version \in {"live", "master"} :
          /\ lastEvent = [NoEvent EXCEPT !.op = "inputs", !.actor = version]
          /\ players_melds = IF version = "live" THEN <<>>
                             ELSE [t \in ClaimTypes |-> <<>>]
    /\ remaining_deck = <<>>
    /\ discard_pile = <<>>
    /\ current_turn = "north"
    /\ scores = [p \in Seats |-> 2000]
    /\ bots = {"north"}
    /\ workers = <<>>
    /\ inbox = <<>>
    /\ game_over = FALSE
    /\ settlements = 0
    /\ moves = 0
    /\ holder = <<>>
    /\ intake = [p \in Seats |-> 0]

searchFrame == <<remaining_deck, last_discard, current_turn, scores, bots, inbox,
                 game_over, settlements, moves, holder, intake>>

callerState == <<players_hands, discard_pile, players_melds>>

\* the objects every state of the master engine shares with the caller
Shared == [hand |-> players_hands["north"], discard_pile |-> discard_pile,
           melds |-> players_melds]

\* the caller's objects after the master engine has written to them
WriteShared(shared) ==
    /\ players_hands' = [players_hands EXCEPT !["north"] = shared.hand]
    /\ discard_pile' = shared.discard_pile
    /\ players_melds' = shared.melds

\* get_best_action up to the loop: the root and its move list; the master
\* engine raises ValueError on an empty hand and falls back when the root
\* has no action
StartSearch(budget) ==
    /\ lastEvent.op = "inputs"
    /\ LET version == lastEvent.actor
           hand == players_hands["north"]
           legal == IF version = "live" THEN get_legal_moves(hand, last_discard)
                    ELSE get_available_actions(hand, last_discard)
           state == IF version = "live"
                    THEN [hand |-> hand, last_discard |-> last_discard, melds |-> <<>>]
                    ELSE [hand |-> <<>>, last_discard |-> <<>>, melds |-> <<>>]
           call == [position |-> "north", pc |-> "loop", meld_claimed |-> FALSE,
                    version |-> version, budget |-> budget, simulations |-> 0,
                    legal0 |-> legal, hand0 |-> hand,
                    tree |-> <<Node(0, NoMove, legal, state)>>,
                    node |-> 1, playout |-> state, depth |-> 0, idle |-> 0,
                    result |-> NoMove]
           fb == fallback_heuristic(hand)
       IN  workers' =
              << IF version = "master" /\ hand = <<>>
                 THEN [call EXCEPT !.pc = "raised"]
                 ELSE IF version = "master" /\ legal = <<>>
                 THEN [call EXCEPT !.pc = IF fb.raised THEN "raised" ELSE "returned",
                                   !.result = fb.action]
                 ELSE call >>
    /\ lastEvent' = [lastEvent EXCEPT !.op = "start_search"]
    /\ UNCHANGED <<callerState, searchFrame>>

\* selection and expansion of one iteration
SelectExpand ==
    /\ workers # <<>>
    /\ workers[1].pc = "loop"
    /\ workers[1].simulations < workers[1].budget
    /\ LET call == workers[1]
           tree == call.tree
       IN  \E n \in SelectTargets(tree, 1) :
              IF tree[n].untried = <<>>
              THEN /\ workers' = <<[call EXCEPT !.pc = "simulate", !.node = n,
                                                !.playout = tree[n].state,
                                                !.depth = 0, !.idle = 0]>>
                   /\ UNCHANGED callerState
              ELSE \E k \in DOMAIN tree[n].untried :
                      LET action == tree[n].untried[k]
                          rest == RemoveAt(tree[n].untried, k)
                          parent == [tree[n] EXCEPT !.untried = rest]
                      IN  IF call.version = "live"
                          THEN LET new_state == apply_move(tree[n].state, action)
                                   child == Node(n, action,
                                                 get_legal_moves(new_state.hand,
                                                                 new_state.last_discard),
                                                 new_state)
                               IN  /\ workers' =
                                        <<[call EXCEPT
                                              !.pc = "simulate",
                                              !.tree = Append([tree EXCEPT ![n] = parent],
                                                              child),
                                              !.node = Len(tree) + 1,
                                              !.playout = new_state,
                                              !.depth = 0, !.idle = 0]>>
                                   /\ UNCHANGED callerState
                          ELSE LET child == Node(n, action, <<>>, tree[n].state)
                               IN  /\ workers' =
                                        <<[call EXCEPT
                                              !.pc = "simulate",
                                              !.tree = Append([tree EXCEPT ![n] = parent],
                                                              child),
                                              !.node = Len(tree) + 1,
                                              !.depth = 0, !.idle = 0]>>
                                   /\ WriteShared(apply_action(Shared, action))
    /\ lastEvent' = [lastEvent EXCEPT !.op = "select_expand"]
    /\ UNCHANGED searchFrame

\* the playout of the live engine may go on
LivePlayoutOpen(call) ==
    /\ call.depth < max_depth
    /\ get_legal_moves(call.playout.hand, call.playout.last_discard) # <<>>

\* the playout of the master engine may go on
MasterPlayoutOpen ==
    /\ players_hands["north"] # <<>>
    /\ get_available_actions(players_hands["north"], last_discard) # <<>>

\* one move of _simulate / _simulate_random_playout
PlayoutMove ==
    /\ workers # <<>>
    /\ workers[1].pc = "simulate"
    /\ LET call == workers[1]
       IN  IF call.version = "live"
           THEN /\ LivePlayoutOpen(call)
                /\ \E k \in DOMAIN get_legal_moves(call.playout.hand,
                                                   call.playout.last_discard) :
                      LET move == get_legal_moves(call.playout.hand,
                                                  call.playout.last_discard)[k]
                      IN  workers' = <<[call EXCEPT
                                           !.playout = apply_move(@, move),
                                           !.depth = @ + 1]>>
                /\ UNCHANGED callerState
           ELSE /\ MasterPlayoutOpen
                /\ \E k \in DOMAIN get_available_actions(players_hands["north"],
                                                         last_discard) :
                      LET action == get_available_actions(players_hands["north"],
                                                          last_discard)[k]
                          after == apply_action(Shared, action)
                          kept == Len(after.hand) = Len(players_hands["north"])
                      IN  /\ kept => call.idle < MaxIdleMoves
                          /\ workers' = <<[call EXCEPT
                                              !.depth = @ + 1,
                                              !.idle = IF kept THEN @ + 1 ELSE @]>>
                          /\ WriteShared(after)
    /\ lastEvent' = [lastEvent EXCEPT !.op = "playout_move"]
    /\ UNCHANGED searchFrame

\* the value the simulation of an iteration returns
playout_reward(call) ==
    IF call.version = "live" THEN simulate_reward(call.playout)
    ELSE evaluate_score(players_hands["north"])

\* the end of the playout and the backpropagation of one iteration
Backpropagate ==
    /\ workers # <<>>
    /\ workers[1].pc = "simulate"
    /\ LET call == workers[1]
       IN  /\ IF call.version = "live" THEN ~LivePlayoutOpen(call)
              ELSE ~MasterPlayoutOpen
           /\ workers' = <<[call EXCEPT !.pc = "loop",
                                        !.tree = backpropagate(call.tree, call.node,
                                                               playout_reward(call),
                                                               call.version),
                                        !.simulations = @ + 1]>>
    /\ lastEvent' = [lastEvent EXCEPT !.op = "backpropagate"]
    /\ UNCHANGED <<callerState, searchFrame>>

\* the loop ends, on the iteration count or (live engine) on the clock, and
\* the call returns or raises
ReturnAction ==
    /\ workers # <<>>
    /\ workers[1].pc = "loop"
    /\ \/ workers[1].simulations = workers[1].budget
       \/ workers[1].version = "live"
    /\ LET call == workers[1]
           childless == Children(call.tree, 1) = {}
           fb == fallback_heuristic(players_hands["north"])
       IN  workers' =
              << IF call.version = "live"
                 THEN IF childless THEN [call EXCEPT !.pc = "raised"]
                      ELSE [call EXCEPT !.pc = "returned",
                                        !.result = best_child_action(call.tree)]
                 ELSE IF childless
                      THEN [call EXCEPT !.pc = IF fb.raised THEN "raised" ELSE "returned",
                                        !.result = fb.action]
                      ELSE [call EXCEPT !.pc = "returned",
                                        !.result = best_child_action(call.tree)] >>
    /\ lastEvent' = [lastEvent EXCEPT !.op = "return"]
    /\ UNCHANGED <<callerState, searchFrame>>

NextSearch ==
    \/ \E budget \in 0..MaxBudget : StartSearch(budget)
    \/ SelectExpand
    \/ PlayoutMove
    \/ Backpropagate
    \/ ReturnAction

SpecSearch == SearchInit /\ [][NextSearch]_vars

(***************************************************************************)
(* C24 - C27, C30.  The search call.                                       *)
(***************************************************************************)
\* the moves of a list, as a set
MoveSet(ms) == {ms[i] : i \in DOMAIN ms}

\* C24: get_best_action never propagates an error to its caller: with no
\* legal action at the root, with a zero iteration budget, or with no child
\* under the root at the end, it falls back to the heuristic and, for a
\* non-empty hand, returns a discard of a tile of the hand.
C24_SearchNeverRaises ==
    workers # <<>> =>
        /\ workers[1].pc # "raised"
        /\ (/\ workers[1].pc = "returned"
            /\ Children(workers[1].tree, 1) = {}
            /\ workers[1].hand0 # <<>>) =>
               /\ workers[1].result.type = "discard"
               /\ \E i \in DOMAIN workers[1].hand0 :
                     workers[1].hand0[i] = workers[1].result.tile

\* C25: every action get_best_action returns is an element of the move list
\* computed for the root state at the start of the search.
C25_ReturnedActionWasLegal ==
    (workers # <<>> /\ workers[1].pc = "returned") =>
        workers[1].result \in MoveSet(workers[1].legal0)

\* a search has returned from a tree in which a node below the root's
\* children was reached by a move that was not legal at the root
C25_ReturnedPastDeeperMove ==
    /\ workers # <<>>
    /\ workers[1].pc = "returned"
    /\ workers[1].simulations = workers[1].budget
    /\ \E m \in DOMAIN workers[1].tree :
          /\ workers[1].tree[m].parent > 1
          /\ workers[1].tree[m].action \notin MoveSet(workers[1].legal0)

\* C26: every search call terminates within its budget: the loop runs at
\* most the configured number of iterations, and every move of a simulation
\* is counted against a fixed depth limit or, where the loop runs until the
\* hand is empty, takes a tile out of the hand, whatever the random choices.
C26_SearchWithinBudget ==
    [][workers' # <<>> =>
          /\ workers'[1].simulations <= workers'[1].budget
          /\ lastEvent'.op = "playout_move" =>
                IF workers[1].version = "live"
                THEN workers'[1].depth <= max_depth
                ELSE Len(players_hands'["north"]) < Len(players_hands["north"])
      ]_vars

\* C27: a search call leaves the state it was given unchanged: the caller's
\* hand, discard pile, melds, last discard and deck are what they were
\* before the call, and the state stored in a node never changes.
C27_CallerStateKept ==
    [][workers' # <<>> =>
          /\ players_hands' = players_hands
          /\ discard_pile' = discard_pile
          /\ players_melds' = players_melds
          /\ last_discard' = last_discard
          /\ remaining_deck' = remaining_deck
          /\ workers # <<>> =>
                \A m \in DOMAIN workers[1].tree :
                   workers'[1].tree[m].state = workers[1].tree[m].state
      ]_vars

\* C30: between iterations and after the search the root's visit count is
\* the number of iterations completed.
C30_RootVisitsCountIterations ==
    (workers # <<>> /\ workers[1].pc \in {"loop", "returned", "raised"}) =>
        workers[1].tree[1].visits = workers[1].simulations

\* a search of several iterations has returned, one of which ran from a node
\* two levels below the root
C30_DeepIterationCounted ==
    /\ workers # <<>>
    /\ workers[1].pc = "returned"
    /\ workers[1].simulations >= 3
    /\ workers[1].tree[1].visits = workers[1].simulations
    /\ \E m \in DOMAIN workers[1].tree :
          /\ workers[1].tree[m].parent > 1
          /\ workers[1].tree[m].visits >= 1


\* C31: backpropagation of a reward r from the simulated node adds one visit
\* to every node on the way to the root and adds the reward with alternating
\* sign: +r at the simulated node, -r at its parent, +r at its grandparent
\* and so on, in both engines; the other nodes are left as they are.
C31_NegamaxBackpropagation ==
    [][lastEvent'.op = "backpropagate" =>
          LET call == workers[1]
              tree == call.tree
              after == workers'[1].tree
              n == call.node
              r == playout_reward(call)
          IN  /\ DOMAIN after = DOMAIN tree
              /\ \A m \in DOMAIN tree :
                    IF m \in PathToRoot(tree, n)
                    THEN /\ after[m].visits = tree[m].visits + 1
                         /\ after[m].value = tree[m].value +
                               (IF (Level(tree, n) - Level(tree, m)) % 2 = 0
                                THEN r ELSE 0 - r)
                    ELSE after[m] = tree[m]
      ]_vars


(***************************************************************************)
(* SpecCache: the evaluation cache of the master engine                    *)
(* (src/MahjongGame-master/game_logic/mcts.py).  workers holds the MCTS    *)
(* object: cache_size, and cache, an OrderedDict, as the sequence of its   *)
(* entries in dict order.  An entry is [key, value, stamp]; stamp is       *)
(* history, the number of the insertion that created the entry.  The       *)
(* hand evaluated is an input of each call.                                *)
(***************************************************************************)
MaxCacheSize == 2      \* cache_size
MaxCacheHand == 2      \* tiles in an evaluated hand
MaxEvaluations == 4    \* _evaluate_state calls per run

CacheTiles == {1, 27}
CacheHands == UNION {[1..n -> CacheTiles] : n \in 0..MaxCacheHand}

\* str(sorted([(t.id, t.suit) for t in hand])): the ids in ascending order
state_key(hand) ==
    CHOOSE s \in [1..Len(hand) -> {hand[i] : i \in DOMAIN hand}] :
       /\ \A i \in 1..(Len(hand) - 1) : s[i] <= s[i + 1]
       /\ \A t \in {hand[i] : i \in DOMAIN hand} : Count(s, t) = Count(hand, t)

\* the entries of the cache stored under a key
CachedAt(cache, key) == {i \in DOMAIN cache : cache[i].key = key}

\* an insertion that makes room by removing the newest entry
cache_evaluation_newest(cache, cache_size, key, value, stamp) ==
    LET full == Len(cache) >= cache_size
        kept == IF full THEN SubSeq(cache, 1, Len(cache) - 1) ELSE cache
    IN  IF full /\ cache = <<>>
        THEN [raised |-> TRUE, cache |-> cache]
        ELSE [raised |-> FALSE,
              cache |-> Append(kept, [key |-> key, value |-> value, stamp |-> stamp])]

\* _cache_evaluation for a key that is not in the cache: popitem(last=False)
\* when the cache is full, which raises KeyError on an empty dict, then the
\* new entry at the end
cache_evaluation(cache, cache_size, key, value, stamp) ==
    LET full == Len(cache) >= cache_size
        kept == IF full THEN Tail(cache) ELSE cache
    IN  IF full /\ cache = <<>>
        THEN [raised |-> TRUE, cache |-> cache]
        ELSE [raised |-> FALSE,
              cache |-> Append(kept, [key |-> key, value |-> value, stamp |-> stamp])]

CacheInit ==
    /\ \E size \in 0..MaxCacheSize :
          workers = <<[cache_size |-> size, cache |-> <<>>, inserted |-> 0,
                       evaluations |-> 0, hits |-> {}, returned |-> 0]>>
    /\ players_hands = [p \in Seats |-> <<>>]
    /\ last_discard = <<>>
    /\ remaining_deck = <<>>
    /\ discard_pile = <<>>
    /\ players_melds = <<>>
    /\ current_turn = "north"
    /\ scores = [p \in Seats |-> 2000]
    /\ bots = {}
    /\ inbox = <<>>
    /\ game_over = FALSE
    /\ settlements = 0
    /\ moves = 0
    /\ holder = <<>>
    /\ intake = [p \in Seats |-> 0]
    /\ lastEvent = [NoEvent EXCEPT !.op = "inputs"]

cacheFrame == <<players_hands, remaining_deck, discard_pile, last_discard,
                players_melds, current_turn, scores, bots, inbox,
                game_over, settlements, moves, holder, intake>>

\* _evaluate_state(state) for a state with the given hand: the cached value
\* on a hit (the dict is read with get and keeps its order); otherwise the
\* score, stored with _cache_evaluation; 0.0 when storing raises
evaluate_state(hand) ==
    /\ workers[1].evaluations < MaxEvaluations
    /\ LET mcts == workers[1]
           key == state_key(hand)
           at == CachedAt(mcts.cache, key)
           stored == cache_evaluation(mcts.cache, mcts.cache_size, key,
                                      evaluate_score(hand), mcts.inserted + 1)
       IN  IF at # {}
           THEN /\ workers' = <<[mcts EXCEPT
                                    !.evaluations = @ + 1,
                                    !.hits = @ \cup {key},
                                    !.returned = mcts.cache[CHOOSE i \in at : TRUE].value]>>
                /\ lastEvent' = [lastEvent EXCEPT !.op = "evaluate", !.arg = "hit"]
           ELSE /\ workers' = <<[mcts EXCEPT
                                    !.evaluations = @ + 1,
                                    !.cache = stored.cache,
                                    !.inserted = IF stored.raised THEN @ ELSE @ + 1,
                                    !.returned = IF stored.raised THEN 0
                                                 ELSE evaluate_score(hand)]>>
                /\ lastEvent' = [lastEvent EXCEPT
                                    !.op = "evaluate",
                                    !.arg = IF stored.raised THEN "raised" ELSE "miss"]
    /\ UNCHANGED cacheFrame

NextCache == \E hand \in CacheHands : evaluate_state(hand)

SpecCache == CacheInit /\ [][NextCache]_vars

\* the entries of a cache, as a set
Entries(cache) == {cache[i] : i \in DOMAIN cache}

\* C32: the evaluation cache never holds more entries than its capacity,
\* whatever is evaluated; an evaluation that removes an entry removes only
\* the one inserted earliest, and an evaluation answered from the cache
\* leaves the entries and their order as they are.
C32_BoundedOldestFirst ==
    [][lastEvent'.op = "evaluate" =>
          LET before == workers[1].cache
              after == workers'[1].cache
              gone == Entries(before) \ Entries(after)
          IN  /\ Len(after) <= workers[1].cache_size
              /\ \A e \in gone : \A f \in Entries(before) : e.stamp <= f.stamp
              /\ Cardinality(gone) <= 1
              /\ gone # {} => Len(before) = workers[1].cache_size
              /\ lastEvent'.arg = "hit" => after = before
      ]_vars

\* a full cache of two or more entries from which an entry that had been
\* read has since been evicted
C32_EvictedAfterRead ==
    /\ lastEvent.op = "evaluate"
    /\ lastEvent.arg = "miss"
    /\ workers[1].cache_size >= 2
    /\ Len(workers[1].cache) = workers[1].cache_size
    /\ \E key \in workers[1].hits : CachedAt(workers[1].cache, key) = {}


(***************************************************************************)
(* C33.  The score of the fallback heuristic.                              *)
(***************************************************************************)
\* rank distance 1 or 2 within one suit
NearInSuit(t, u) ==
    /\ 0 <= t /\ t <= 26
    /\ 0 <= u /\ u <= 26
    /\ Suit(t) = Suit(u)
    /\ (t - u) \in {0 - 2, 0 - 1, 1, 2}

\* C33: the score the fallback heuristic gives a tile of the hand is the
\* number of other hand tiles with its id plus the number of same-suit ranks
\* at distance 1 or 2 that the hand holds, minus 1 when there is neither;
\* tiles of another suit, winds, dragons and bonus tiles are never
\* neighbours of a suited tile, even when their ids are within 2.
C33_ScoreCountsSameSuitOnly ==
    lastEvent.op = "heuristic" =>
        LET hand == players_hands["north"]
        IN  \A i \in DOMAIN hand :
               LET t == hand[i]
                   copies == Count(hand, t) - 1
                   near == Cardinality({u \in {hand[j] : j \in DOMAIN hand} :
                                           NearInSuit(t, u)})
               IN  HeuristicScore(lastEvent.actor, hand, t) =
                      copies + near - (IF copies = 0 /\ near = 0 THEN 1 ELSE 0)


(***************************************************************************)
(* C34 - C39.  Melds, tiles, hand sizes, scores and workers of a room.     *)
(***************************************************************************)
\* the ids of the tiles of a meld
MeldIds(meld) == {meld.tiles[k] : k \in DOMAIN meld.tiles}

\* a pong is 3 tiles of one id, a kong 4 tiles of one id, a chi 3 tiles of
\* one suit with three consecutive numbers
WellFormedMeld(meld) ==
    IF meld.meld_type = "pong"
    THEN Len(meld.tiles) = 3 /\ Cardinality(MeldIds(meld)) = 1
    ELSE IF meld.meld_type = "kong"
    THEN Len(meld.tiles) = 4 /\ Cardinality(MeldIds(meld)) = 1
    ELSE IF meld.meld_type = "chi"
    THEN /\ Len(meld.tiles) = 3
         /\ \E s \in SUITED : \A t \in MeldIds(meld) : Suit(t) = s
         /\ \E n \in 1..7 : {TileNumber(t) : t \in MeldIds(meld)} = {n, n + 1, n + 2}
    ELSE FALSE

\* C34: every meld recorded in a seat's meld list is well formed and never
\* changes afterwards: each step leaves the melds a seat had where they
\* were and as they were, and every meld it adds is appended, is a pong of
\* 3 tiles of one id, a kong of 4 or a chi of 3 consecutive numbers of one
\* suit, and contains the claimed discard.
C34_MeldsWellFormedAppendOnly ==
    [][\A p \in Seats :
          LET old == MeldsOf(players_melds, p)
              new == MeldsOf(players_melds', p)
          IN  /\ Len(old) <= Len(new)
              /\ SubSeq(new, 1, Len(old)) = old
              /\ \A k \in (Len(old) + 1)..Len(new) :
                    /\ WellFormedMeld(new[k])
                    /\ new[k].claimed_by = p
                    /\ last_discard # <<>>
                    /\ last_discard[1] \in MeldIds(new[k])
      ]_vars

\* a seat that already had a meld has just added a chi to its list
C34_ChiAppended ==
    /\ lastEvent.op = "claim"
    /\ lastEvent.arg = "chi"
    /\ LET ms == MeldsOf(players_melds, lastEvent.seat)
       IN  /\ Len(ms) >= 2
           /\ ms[Len(ms)].meld_type = "chi"
           /\ ms[Len(ms)].tiles[1] = last_discard[1]


\* the number of tiles with this id in the melds of a list
RECURSIVE MeldListCount(_, _)
MeldListCount(melds, id) ==
    IF melds = <<>> THEN 0
    ELSE Count(Head(melds).tiles, id) + MeldListCount(Tail(melds), id)

\* the number of tiles with this id in the deck, the hands, the discard pile
\* and the melds
TilesInPlay(deck, hands, pile, pm, id) ==
    Count(deck, id) + Count(pile, id)
    + SumSeq([k \in 1..Len(POSITIONS) |->
                 Count(hands[POSITIONS[k]], id)
                 + MeldListCount(MeldsOf(pm, POSITIONS[k]), id)])

\* C35: tile conservation: no step changes, for any tile id, the number of
\* tiles with that id over the remaining deck, the four hands, the discard
\* pile and all recorded melds, so the multiset is the one dealt at the start.
C35_TilesConserved ==
    [][\A id \in 0..41 :
          TilesInPlay(remaining_deck', players_hands', discard_pile',
                      players_melds', id)
          = TilesInPlay(remaining_deck, players_hands, discard_pile,
                        players_melds, id)
      ]_vars


\* hand size + 3 per pong or chi + 4 per kong of a seat
SeatTotal(p) == TotalTiles(players_hands[p], MeldsOf(players_melds, p))

\* C36: for every seat, hand size + 3 x (pong and chi melds) + 4 x (kong
\* melds) is 13 or 14, and it is 14 for at most one seat at a time, the seat
\* in turn, which must discard next; no seat reaches 15.
C36_ThirteenOrFourteen ==
    /\ \A p \in Seats : SeatTotal(p) \in {13, 14}
    /\ \A p \in Seats : SeatTotal(p) = 14 => p = current_turn


\* C37: no seat forms a meld with a tile it discarded itself: a successful
\* claim, by a human or a bot, that follows a discard is made by a seat
\* other than the one that made the discard.
C37_NoClaimOfOwnDiscard ==
    [][(lastEvent.op = "discard" /\ lastEvent'.op = "claim") =>
          lastEvent'.seat # lastEvent.seat
      ]_vars


\* C38: the score table is zero-sum: in every reachable state the four
\* balances sum to 4 x 2000 = 8000, before and after any settlement,
\* whichever seat wins and whether or not the winner sits at east.
C38_ScoresSumTo8000 ==
    SumSeq([k \in 1..Len(POSITIONS) |-> scores[POSITIONS[k]]]) = 4 * 2000

\* a settlement has paid a winner at east twice its meld score from each of
\* the three other seats
C38_EastCollectedDouble ==
    /\ settlements >= 1
    /\ PlayerScore(MeldsOf(players_melds, "east")) > 0
    /\ scores["east"] = 2000 + 6 * PlayerScore(MeldsOf(players_melds, "east"))
    /\ \A p \in Seats \ {"east"} :
          scores[p] = 2000 - 2 * PlayerScore(MeldsOf(players_melds, "east"))


\* C39: at any moment at most one bot worker is pending or running in the
\* room, and it acts for the seat the current-turn pointer names.
C39_OneWorkerForTurnSeat ==
    /\ Len(workers) <= 1
    /\ \A i \in DOMAIN workers : workers[i].position = current_turn

=============================================================================
